---- MODULE Spec2Model ----
(***************************************************************************)
(* Model of the crypto agent's data-fetch-with-fallback code:              *)
(*   - the workflow  crypto-analysis-workflow  (crypto-workflow.ts):       *)
(*     fetch-crypto-price, fetch-sentiment-score, fetch-crypto-news,       *)
(*     compile-analysis, run in that order;                                *)
(*   - the three tools get-crypto-price, get-sentiment-score and           *)
(*     get-crypto-news.                                                    *)
(*                                                                         *)
(* Conventions.                                                            *)
(*   - A JavaScript string that the code inspects character by character   *)
(*     (identifiers, symbols, rateUsd) is a sequence of one-character      *)
(*     strings; a string the code only passes on or compares as a whole    *)
(*     is a TLA+ string.                                                   *)
(*   - A missing (undefined) field of a JavaScript object is the value     *)
(*     Undefined.                                                          *)
(*   - A JavaScript number that carries a fear-and-greed value is an       *)
(*     integer count of 1/Scale units, so that non-integer values exist;   *)
(*     N(k) is the number k.  A score is a count of 1/ScoreDen units.      *)
(*   - Time is counted in minutes since the epoch (Date.now() / 60000).    *)
(*   - Error messages are kept without their interpolated identifiers.     *)
(***************************************************************************)
EXTENDS Integers, Sequences, FiniteSets, TLC

Undefined == "<undefined>"

Min(a, b) == IF a <= b THEN a ELSE b

Max(a, b) == IF a >= b THEN a ELSE b

Abs(a) == IF a < 0 THEN 0 - a ELSE a

(***************************************************************************)
(* Characters and strings                                                  *)
(***************************************************************************)
Upper ==
    << "A", "B", "C", "D", "E", "F", "G", "H", "I", "J", "K", "L", "M",
       "N", "O", "P", "Q", "R", "S", "T", "U", "V", "W", "X", "Y", "Z" >>

Lower ==
    << "a", "b", "c", "d", "e", "f", "g", "h", "i", "j", "k", "l", "m",
       "n", "o", "p", "q", "r", "s", "t", "u", "v", "w", "x", "y", "z" >>

Digits == << "0", "1", "2", "3", "4", "5", "6", "7", "8", "9" >>

InSeq(seq, c) == \E i \in 1..Len(seq) : seq[i] = c

IndexIn(seq, c) == CHOOSE i \in 1..Len(seq) : seq[i] = c

IsDigit(c) == InSeq(Digits, c)

DigitValue(c) == IndexIn(Digits, c) - 1

\* \s of a JavaScript regular expression, and what String.prototype.trim strips
IsSpace(c) == c \in {" ", "\t", "\n", "\r"}

\* String.prototype.charCodeAt(0) of a one-character string
charCodeAt(c) ==
    IF InSeq(Upper, c) THEN 64 + IndexIn(Upper, c)
    ELSE IF InSeq(Lower, c) THEN 96 + IndexIn(Lower, c)
    ELSE IF IsDigit(c) THEN 47 + IndexIn(Digits, c)
    ELSE CASE c = "\t" -> 9
           [] c = "\n" -> 10
           [] c = "\r" -> 13
           [] c = " " -> 32
           [] c = "+" -> 43
           [] c = "-" -> 45
           [] c = "." -> 46
           [] c = "/" -> 47
           [] c = "<" -> 60
           [] c = ">" -> 62
           [] c = "[" -> 91
           [] c = "\\" -> 92
           [] c = "]" -> 93
           [] c = "_" -> 95
           [] c = "{" -> 123
           [] c = "}" -> 125

toUpperCase(s) ==
    [i \in 1..Len(s) |->
        IF InSeq(Lower, s[i]) THEN Upper[IndexIn(Lower, s[i])] ELSE s[i]]

toLowerCase(s) ==
    [i \in 1..Len(s) |->
        IF InSeq(Upper, s[i]) THEN Lower[IndexIn(Upper, s[i])] ELSE s[i]]

RECURSIVE trimStart(_)
trimStart(s) ==
    IF s = << >> THEN s
    ELSE IF IsSpace(Head(s)) THEN trimStart(Tail(s)) ELSE s

RECURSIVE trimEnd(_)
trimEnd(s) ==
    IF s = << >> THEN s
    ELSE IF IsSpace(s[Len(s)]) THEN trimEnd(SubSeq(s, 1, Len(s) - 1)) ELSE s

trim(s) == trimEnd(trimStart(s))

\* s.startsWith(p)
StartsWith(s, p) == Len(s) >= Len(p) /\ SubSeq(s, 1, Len(p)) = p

\* the longest prefix of s made of decimal digits
RECURSIVE DigitPrefix(_)
DigitPrefix(s) ==
    IF s # << >> /\ IsDigit(Head(s))
    THEN << Head(s) >> \o DigitPrefix(Tail(s))
    ELSE << >>

Drop(s, n) == SubSeq(s, n + 1, Len(s))

\* the value of a sequence of decimal digits
RECURSIVE DigitsValue(_)
DigitsValue(ds) ==
    IF ds = << >> THEN 0
    ELSE 10 * DigitsValue(SubSeq(ds, 1, Len(ds) - 1)) + DigitValue(ds[Len(ds)])

(***************************************************************************)
(* parseFloat.  The result is the class of the IEEE double it returns:     *)
(* "NaN", "-Infinity", "negative", "zero" (0 or -0), "positive" (finite)   *)
(* or "Infinity".  The model reads the longest prefix that is a            *)
(* StrDecimalLiteral after leading white space, as ECMAScript does; a      *)
(* literal d.ddd x 10^k overflows to Infinity when k > 308 and rounds to   *)
(* zero when k < -324 (the literals used stay away from the exact          *)
(* boundaries 1.797e308 and 2.47e-324).                                    *)
(***************************************************************************)
InfinityWord == << "I", "n", "f", "i", "n", "i", "t", "y" >>

NumberClass(neg, intDigits, fracDigits, exp) ==
    LET mantissa == intDigits \o fracDigits
        nonZero == {i \in 1..Len(mantissa) : mantissa[i] # "0"}
        lead == CHOOSE i \in nonZero : \A j \in nonZero : i <= j
    IN  IF mantissa = << >> THEN "NaN"
        ELSE IF nonZero = {} THEN "zero"
        ELSE IF Len(intDigits) - lead + exp > 308
        THEN (IF neg THEN "-Infinity" ELSE "Infinity")
        ELSE IF Len(intDigits) - lead + exp < 0 - 324 THEN "zero"
        ELSE IF neg THEN "negative" ELSE "positive"

\* the value of the exponent part at the head of s, 0 where there is none:
\* an exponent part without digits is not part of the literal
ExponentPart(s) ==
    LET hasE == s # << >> /\ Head(s) \in {"e", "E"}
        signed == hasE /\ Len(s) > 1 /\ s[2] \in {"+", "-"}
        expDigits == IF ~hasE THEN << >>
                     ELSE DigitPrefix(Drop(s, IF signed THEN 2 ELSE 1))
    IN  IF expDigits = << >> THEN 0
        ELSE IF signed /\ s[2] = "-" THEN 0 - DigitsValue(expDigits)
        ELSE DigitsValue(expDigits)

\* the literal goes on after its integer digits with s
FractionPart(neg, intDigits, s) ==
    LET hasDot == s # << >> /\ Head(s) = "."
        fracDigits == IF hasDot THEN DigitPrefix(Tail(s)) ELSE << >>
    IN  NumberClass(neg, intDigits, fracDigits,
                    ExponentPart(IF hasDot THEN Drop(s, 1 + Len(fracDigits))
                                 ELSE s))

Unsigned(neg, s) ==
    IF StartsWith(s, InfinityWord)
    THEN (IF neg THEN "-Infinity" ELSE "Infinity")
    ELSE FractionPart(neg, DigitPrefix(s), Drop(s, Len(DigitPrefix(s))))

Signed(s) ==
    IF s # << >> /\ Head(s) \in {"+", "-"}
    THEN Unsigned(Head(s) = "-", Tail(s))
    ELSE Unsigned(FALSE, s)

parseFloat(str) == Signed(trimStart(str))

\* Number.isNaN(x)
isNaN(x) == x = "NaN"

\* x <= 0 on the classes above (false for NaN)
LeqZero(x) == x \in {"-Infinity", "negative", "zero"}

(***************************************************************************)
(* Numbers and time                                                        *)
(***************************************************************************)
\* resolution of the fear-and-greed numbers: they count 1/Scale units
Scale == 2

\* the JavaScript number k (an integer literal of the source)
N(k) == k * Scale

\* a score s of the source is the count s * ScoreDen: (value - 50) / 50
ScoreDen == 50 * Scale

\* Math.floor(now / (1000 * 60 * 60)), now given in minutes
hourBucket(t) == t \div 60

\* new Date().getHours() in a zone whose offset from UTC is zone minutes
getHours(t, zone) == ((t + zone) \div 60) % 24

\* new Date().getDay(): 0 is Sunday; day 0 of the epoch was a Thursday
getDay(t, zone) == (((t + zone) \div 1440) + 4) % 7

\* symbol.split("").reduce((acc, char) => acc + char.charCodeAt(0), 0)
RECURSIVE symbolHash(_)
symbolHash(symbol) ==
    IF symbol = << >> THEN 0
    ELSE charCodeAt(Head(symbol)) + symbolHash(Tail(symbol))

(***************************************************************************)
(* Sentiment utilities of crypto-workflow.ts                               *)
(***************************************************************************)
wf_getFearGreedClassification(value) ==
    IF value >= N(75) THEN "Extreme Greed"
    ELSE IF value >= N(55) THEN "Greed"
    ELSE IF value >= N(45) THEN "Neutral"
    ELSE IF value >= N(25) THEN "Fear"
    ELSE "Extreme Fear"

\* wf_convertToSentiment with "value > 60" written for "value >= 60"
wf_convertToSentiment_exclusive(value) ==
    LET score == value - N(50)
        sentiment == IF value > N(60) THEN "bullish"
                     ELSE IF value <= N(40) THEN "bearish"
                     ELSE "neutral"
    IN  [sentiment |-> sentiment,
         score |-> Max(0 - ScoreDen, Min(ScoreDen, score))]

wf_convertToSentiment(value) ==
    LET score == value - N(50)
        sentiment == IF value >= N(60) THEN "bullish"
                     ELSE IF value <= N(40) THEN "bearish"
                     ELSE "neutral"
    IN  [sentiment |-> sentiment,
         score |-> Max(0 - ScoreDen, Min(ScoreDen, score))]

\* wf_adjustedValue with 60 added in trading hours where the source adds 30
wf_adjustedValue_plus60(symbol, t, zone) ==
    LET hour == getHours(t, zone)
        timeHash == hourBucket(t) % 100
        combinedHash == (symbolHash(symbol) + timeHash) % 100
    IN  IF hour >= 9 /\ hour <= 16
        THEN Abs(combinedHash - 50) + 60
        ELSE combinedHash

\* adjustedValue of generateFallbackSentiment: the value before the clamp
wf_adjustedValue(symbol, t, zone) ==
    LET hour == getHours(t, zone)
        timeHash == hourBucket(t) % 100
        combinedHash == (symbolHash(symbol) + timeHash) % 100
    IN  IF hour >= 9 /\ hour <= 16
        THEN Abs(combinedHash - 50) + 30
        ELSE combinedHash

wf_generateFallbackSentiment(symbol, t, zone) ==
    LET adjustedValue == wf_adjustedValue(symbol, t, zone)
        fearGreedValue == N(Max(0, Min(100, adjustedValue)))
        conv == wf_convertToSentiment(fearGreedValue)
    IN  [sentiment |-> conv.sentiment,
         score |-> conv.score,
         fear_greed_value |-> fearGreedValue]

(***************************************************************************)
(* Sentiment utilities of the get-sentiment-score tool                     *)
(***************************************************************************)
\* tool_getFearGreedClassification with the Greed bucket starting at 60
tool_getFearGreedClassification_greedAt60(value) ==
    IF value >= N(75) THEN "Extreme Greed"
    ELSE IF value >= N(60) THEN "Greed"
    ELSE IF value >= N(45) THEN "Neutral"
    ELSE IF value >= N(25) THEN "Fear"
    ELSE "Extreme Fear"

tool_getFearGreedClassification(value) ==
    IF value >= N(75) THEN "Extreme Greed"
    ELSE IF value >= N(55) THEN "Greed"
    ELSE IF value >= N(45) THEN "Neutral"
    ELSE IF value >= N(25) THEN "Fear"
    ELSE "Extreme Fear"

tool_convertToSentiment(value) ==
    LET score == value - N(50)
        sentiment == IF value >= N(60) THEN "bullish"
                     ELSE IF value <= N(40) THEN "bearish"
                     ELSE "neutral"
    IN  [sentiment |-> sentiment,
         score |-> Max(0 - ScoreDen, Min(ScoreDen, score))]

\* adjustedValue of the tool's generateFallbackSentiment: the value before
\* the clamp
tool_adjustedValue(symbol, t, zone) ==
    LET hour == getHours(t, zone)
        dayOfWeek == getDay(t, zone)
        timeHash == hourBucket(t) % 100
        combinedHash == (symbolHash(symbol) + timeHash) % 100
    IN  IF hour >= 9 /\ hour <= 16 /\ dayOfWeek >= 1 /\ dayOfWeek <= 5
        THEN Abs(combinedHash - 50) + 30
        ELSE combinedHash

\* tool_generateFallbackSentiment without its test of the day of the week
tool_generateFallbackSentiment_anyDay(symbol, t, zone) ==
    LET hour == getHours(t, zone)
        timeHash == hourBucket(t) % 100
        combinedHash == (symbolHash(symbol) + timeHash) % 100
        adjustedValue == IF hour >= 9 /\ hour <= 16
                         THEN Abs(combinedHash - 50) + 30
                         ELSE combinedHash
        fearGreedValue == N(Max(0, Min(100, adjustedValue)))
        conv == tool_convertToSentiment(fearGreedValue)
        classification == tool_getFearGreedClassification(fearGreedValue)
    IN  [symbol |-> symbol,
         sentiment |-> conv.sentiment,
         score |-> conv.score,
         confidence |-> 30,
         fear_greed_value |-> fearGreedValue,
         analysis |-> [kind |-> "fallback",
                       value |-> fearGreedValue,
                       classification |-> classification,
                       sentiment |-> conv.sentiment],
         error |-> "Primary sentiment API unavailable, using fallback calculation"]

\* confidence is kept in hundredths; analysis keeps the parts interpolated
\* into the text
tool_generateFallbackSentiment(symbol, t, zone) ==
    LET adjustedValue == tool_adjustedValue(symbol, t, zone)
        fearGreedValue == N(Max(0, Min(100, adjustedValue)))
        conv == tool_convertToSentiment(fearGreedValue)
        classification == tool_getFearGreedClassification(fearGreedValue)
    IN  [symbol |-> symbol,
         sentiment |-> conv.sentiment,
         score |-> conv.score,
         confidence |-> 30,
         fear_greed_value |-> fearGreedValue,
         analysis |-> [kind |-> "fallback",
                       value |-> fearGreedValue,
                       classification |-> classification,
                       sentiment |-> conv.sentiment],
         error |-> "Primary sentiment API unavailable, using fallback calculation"]

(***************************************************************************)
(* Literals of the source                                                  *)
(***************************************************************************)
Str_unknown == << "u", "n", "k", "n", "o", "w", "n" >>

Str_UNKNOWN == << "U", "N", "K", "N", "O", "W", "N" >>

Str_0 == << "0" >>

Str_cryptocurrency == << "c", "r", "y", "p", "t", "o", "c", "u", "r", "r", "e", "n", "c", "y" >>

(***************************************************************************)
(* What the three providers and the language model answer.  A provider     *)
(* either gives no usable connection ("network_error": fetch rejects),     *)
(* never answers ("no_response"), or answers with an HTTP status and a     *)
(* body.  The body is kept by the parts the code reads.                    *)
(***************************************************************************)
\* Response.ok
ok(status) == status >= 200 /\ status <= 299

\* the rates provider: GET /v3/rates/{id}
RatesDown(kind) ==
    [kind |-> kind, status |-> 0, shape |-> "none",
     id |-> << >>, symbol |-> << >>, rateUsd |-> << >>]

RatesStatus(status) ==
    [kind |-> "http", status |-> status, shape |-> "none",
     id |-> << >>, symbol |-> << >>, rateUsd |-> << >>]

\* shape: "invalid_json" (json() throws), "null" (the body is not an object),
\* "no_data" (an object without data) or "data"
RatesBody(shape) ==
    [kind |-> "http", status |-> 200, shape |-> shape,
     id |-> << >>, symbol |-> << >>, rateUsd |-> << >>]

\* an absent id, symbol or rateUsd is the empty string: the code tests all
\* three for truthiness only
RatesData(id, symbol, rateUsd) ==
    [kind |-> "http", status |-> 200, shape |-> "data",
     id |-> id, symbol |-> symbol, rateUsd |-> rateUsd]

\* the sentiment provider: GET /v3/fear-and-greed/historical
FngDown(kind) ==
    [kind |-> kind, status |-> 0, shape |-> "none", error_code |-> "",
     data |-> "missing", valueIsNumber |-> FALSE, value |-> 0,
     value_classification |-> ""]

FngStatus(status) ==
    [kind |-> "http", status |-> status, shape |-> "none", error_code |-> "",
     data |-> "missing", valueIsNumber |-> FALSE, value |-> 0,
     value_classification |-> ""]

\* shape: "invalid_json", "null", "no_status" or "status";
\* data: "missing", "empty" or "list" (a non-empty array, whose first element
\* has the value and the value_classification given; "" is no classification)
FngBody(shape, error_code, data, valueIsNumber, value, classification) ==
    [kind |-> "http", status |-> 200, shape |-> shape,
     error_code |-> error_code, data |-> data,
     valueIsNumber |-> valueIsNumber, value |-> value,
     value_classification |-> classification]

FngValue(value, classification) ==
    FngBody("status", "0", "list", TRUE, value, classification)

\* a text of the news provider: what it says and how long it is; a missing
\* or empty text has length 0
Text(text, len) == [text |-> text, len |-> len]

NoText == Text("", 0)

\* an element of the provider's articles array.  isObject is FALSE for null;
\* source is "named" ({name: ...}), "nameless" ({}) or "missing"
Article(isObject, title, description, url, publishedAt, source) ==
    [isObject |-> isObject, title |-> title, description |-> description,
     url |-> url, publishedAt |-> publishedAt, source |-> source]

\* the news provider: GET /v2/everything
NewsDown(kind) ==
    [kind |-> kind, status |-> 0, shape |-> "none", apiStatus |-> "",
     isArray |-> FALSE, articles |-> << >>]

NewsStatus(status) ==
    [kind |-> "http", status |-> status, shape |-> "none", apiStatus |-> "",
     isArray |-> FALSE, articles |-> << >>]

\* shape: "invalid_json", "null" or "object"; apiStatus is the body's status
NewsBody(shape, apiStatus, isArray, articles) ==
    [kind |-> "http", status |-> 200, shape |-> shape, apiStatus |-> apiStatus,
     isArray |-> isArray, articles |-> articles]

(***************************************************************************)
(* State                                                                   *)
(***************************************************************************)
VARIABLES
    env,        \* process.env: which credentials are set
    zone,       \* the process's offset from UTC, in minutes
    now,        \* the clock, in minutes since the epoch
    ticksLeft,  \* how often the clock still advances
    input,      \* the request: crypto_id, crypto_symbol, news_limit
    world,      \* what the providers and the language model answer
    pc,         \* where the workflow run or the tool call stands
    price,      \* what fetch-crypto-price returned (a sequence of 0 or 1)
    sentiment,  \* what fetch-sentiment-score returned
    news,       \* what fetch-crypto-news returned
    report,     \* what compile-analysis returned
    tool,       \* the tool call that has just returned, and its result
    outbox,     \* the outbound requests of the current run or tool call
    fbSeen,     \* the last call of a generateFallbackSentiment (0 or 1)
    other       \* a second workflow run of the process, while it is suspended

vars ==
    << env, zone, now, ticksLeft, input, world, pc, price, sentiment, news,
       report, tool, outbox, fbSeen, other >>

config == << env, zone, input, world >>

\* a fetch without an abort signal has no timeout
NoTimeout == 0

\* an outbound request; pageSize is 0 where there is none, timeout the
\* seconds after which the request's abort timer fires
Request(to, pageSize, timeout) ==
    [to |-> to, pageSize |-> pageSize, timeout |-> timeout]

\* the awaited fetch settles: the provider answers, the connection fails,
\* or the abort timer fires
Settles(request, resp) ==
    resp.kind # "no_response" \/ request.timeout # NoTimeout

(***************************************************************************)
(* Shared JavaScript idioms                                                *)
(***************************************************************************)
\* s || d on strings: the empty string is falsy
OrStr(s, d) == IF s = << >> THEN d ELSE s

\* x || d on numbers: 0 is falsy
OrNum(x, d) == IF x = 0 THEN d ELSE x

\* /[<>{}[\]\\\/]/.test(s)
HasMaliciousChar(s) ==
    \E i \in 1..Len(s) : s[i] \in {"<", ">", "{", "}", "[", "]", "\\", "/"}

\* /^\s*$/.test(s)
IsWhitespaceOnly(s) == \A i \in 1..Len(s) : IsSpace(s[i])

\* /^[0-9]+$/.test(s)
IsNumbersOnly(s) == s # << >> /\ \A i \in 1..Len(s) : IsDigit(s[i])

\* for (const pattern of invalidPatterns) if (pattern.test(normalizedId)) ...
MatchesInvalidPattern(normalizedId) ==
    \/ HasMaliciousChar(normalizedId)
    \/ IsWhitespaceOnly(normalizedId)
    \/ IsNumbersOnly(normalizedId)

(***************************************************************************)
(* Workflow step 1: fetch-crypto-price                                     *)
(***************************************************************************)
\* wf_priceThrowBeforeFetch without its test of COINCAP_API_KEY
wf_priceThrowBeforeFetch_noKeyTest(inputData, e) ==
    IF inputData.crypto_id = << >> \/ trim(inputData.crypto_id) = << >>
    THEN "Invalid cryptocurrency ID provided"
    ELSE IF inputData.crypto_symbol = << >>
            \/ trim(inputData.crypto_symbol) = << >>
    THEN "Invalid cryptocurrency symbol provided"
    ELSE IF MatchesInvalidPattern(trim(toLowerCase(inputData.crypto_id)))
    THEN "Invalid cryptocurrency ID format"
    ELSE Undefined

\* the error thrown before the request is sent, or Undefined
wf_priceThrowBeforeFetch(inputData, e) ==
    IF inputData.crypto_id = << >> \/ trim(inputData.crypto_id) = << >>
    THEN "Invalid cryptocurrency ID provided"
    ELSE IF inputData.crypto_symbol = << >>
            \/ trim(inputData.crypto_symbol) = << >>
    THEN "Invalid cryptocurrency symbol provided"
    ELSE IF MatchesInvalidPattern(trim(toLowerCase(inputData.crypto_id)))
    THEN "Invalid cryptocurrency ID format"
    ELSE IF ~e.COINCAP_API_KEY
    THEN "COINCAP_API_KEY environment variable is required"
    ELSE Undefined

\* the error thrown once the request has been answered (or not), or Undefined
wf_priceThrowAfterFetch(resp) ==
    IF resp.kind = "network_error" THEN "fetch failed"
    ELSE IF resp.kind = "no_response" THEN "This operation was aborted"
    ELSE IF ~ok(resp.status)
    THEN (IF resp.status = 404
          THEN "Cryptocurrency not found. Please verify the cryptocurrency identifier."
          ELSE IF resp.status = 429
          THEN "Rate limit exceeded. Please try again in a few moments."
          ELSE IF resp.status >= 500
          THEN "CoinCap API is temporarily unavailable. Please try again later."
          ELSE "Failed to fetch crypto data")
    ELSE IF resp.shape = "invalid_json" THEN "Unexpected token in JSON"
    ELSE IF resp.shape = "null"
    THEN "Invalid response format from CoinCap API"
    ELSE IF resp.shape = "no_data"
    THEN "Cryptocurrency not found in CoinCap database"
    ELSE IF resp.rateUsd = << >> \/ isNaN(parseFloat(resp.rateUsd))
    THEN "Invalid price data received"
    ELSE IF LeqZero(parseFloat(resp.rateUsd))
    THEN "Invalid price value"
    ELSE Undefined

\* the record the catch block returns
wf_priceErrorRecord(inputData, message) ==
    [crypto_id |-> OrStr(inputData.crypto_id, Str_unknown),
     crypto_symbol |-> OrStr(inputData.crypto_symbol, Str_UNKNOWN),
     news_limit |-> OrNum(inputData.news_limit, N(3)),
     name |-> OrStr(inputData.crypto_id, Str_unknown),
     symbol |-> OrStr(inputData.crypto_symbol, Str_UNKNOWN),
     priceUsd |-> Str_0,
     changePercent24Hr |-> "N/A",
     error |-> message]

\* the record returned when nothing was thrown
wf_priceRecord(inputData, resp) ==
    LET normalizedId == trim(toLowerCase(inputData.crypto_id))
        normalizedSymbol == trim(toUpperCase(inputData.crypto_symbol))
        validLimit == Max(N(1), Min(N(20), OrNum(inputData.news_limit, N(3))))
    IN  [crypto_id |-> normalizedId,
         crypto_symbol |-> normalizedSymbol,
         news_limit |-> validLimit,
         name |-> OrStr(resp.id, normalizedId),
         symbol |-> OrStr(resp.symbol, normalizedSymbol),
         priceUsd |-> resp.rateUsd,
         changePercent24Hr |-> "N/A",
         error |-> Undefined]

\* WfPriceCall with the error thrown out of the step instead of returned
WfPriceCall_throws ==
    /\ pc = "price"
    /\ LET thrown == wf_priceThrowBeforeFetch(input, env)
       IN  IF thrown # Undefined
           THEN /\ price' = price
                /\ pc' = "failed"
                /\ outbox' = outbox
           ELSE /\ outbox' = Append(outbox, Request("rates", 0, 10))
                /\ pc' = "price_wait"
                /\ price' = price
    /\ UNCHANGED << config, other, now, ticksLeft, sentiment, news, report, tool, fbSeen >>

\* execute, up to the await of fetch
WfPriceCall ==
    /\ pc = "price"
    /\ LET thrown == wf_priceThrowBeforeFetch(input, env)
       IN  IF thrown # Undefined
           THEN /\ price' = << wf_priceErrorRecord(input, thrown) >>
                /\ pc' = "sentiment"
                /\ outbox' = outbox
           ELSE /\ outbox' = Append(outbox, Request("rates", 0, 10))
                /\ pc' = "price_wait"
                /\ price' = price
    /\ UNCHANGED << config, other, now, ticksLeft, sentiment, news, report, tool, fbSeen >>

\* WfPriceResponse with one more attempt after a failed request
WfPriceResponse_retry ==
    /\ pc = "price_wait"
    /\ Settles(outbox[Len(outbox)], world.rates)
    /\ LET thrown == wf_priceThrowAfterFetch(world.rates)
       IN  IF thrown # Undefined /\ Len(outbox) < 2
           THEN /\ outbox' = Append(outbox, Request("rates", 0, 10))
                /\ pc' = pc
                /\ price' = price
           ELSE /\ price' = IF thrown # Undefined
                            THEN << wf_priceErrorRecord(input, thrown) >>
                            ELSE << wf_priceRecord(input, world.rates) >>
                /\ pc' = "sentiment"
                /\ outbox' = outbox
    /\ UNCHANGED << config, other, now, ticksLeft, sentiment, news, report, tool,
                    fbSeen >>

\* execute, from the answer (or the 10 s abort) on
WfPriceResponse ==
    /\ pc = "price_wait"
    /\ Settles(outbox[Len(outbox)], world.rates)
    /\ LET thrown == wf_priceThrowAfterFetch(world.rates)
       IN  price' = IF thrown # Undefined
                    THEN << wf_priceErrorRecord(input, thrown) >>
                    ELSE << wf_priceRecord(input, world.rates) >>
    /\ pc' = "sentiment"
    /\ UNCHANGED << config, other, now, ticksLeft, sentiment, news, report, tool, outbox,
                    fbSeen >>

(***************************************************************************)
(* Tool get-crypto-price                                                   *)
(***************************************************************************)
\* getPrice: the error thrown before the request is sent, or Undefined
getPrice_throwBeforeFetch(crypto_id, e) ==
    IF crypto_id = << >> THEN "Invalid cryptocurrency ID provided"
    ELSE IF trim(toLowerCase(crypto_id)) = << >>
    THEN "Cryptocurrency ID cannot be empty"
    ELSE IF MatchesInvalidPattern(trim(toLowerCase(crypto_id)))
    THEN "Invalid cryptocurrency ID format"
    ELSE IF ~e.COINCAP_API_KEY
    THEN "COINCAP_API_KEY environment variable is required"
    ELSE Undefined

\* getPrice: the error its try block throws and its catch block rethrows
getPrice_throwAfterFetch(resp) ==
    IF resp.kind = "network_error" THEN "fetch failed"
    ELSE IF resp.kind = "no_response"
    THEN "Request timeout while fetching data. Please try again."
    ELSE IF ~ok(resp.status)
    THEN (IF resp.status = 404
          THEN "Cryptocurrency not found. Please check the spelling and try again."
          ELSE IF resp.status = 429
          THEN "Rate limit exceeded. Please try again in a few moments."
          ELSE IF resp.status >= 500
          THEN "CoinCap API is temporarily unavailable. Please try again later."
          ELSE "Failed to fetch crypto data")
    ELSE IF resp.shape = "invalid_json" THEN "Unexpected token in JSON"
    ELSE IF resp.shape = "null"
    THEN "Invalid response format from CoinCap API"
    ELSE IF resp.shape = "no_data"
    THEN "Cryptocurrency not found in CoinCap database"
    ELSE IF resp.rateUsd = << >> \/ isNaN(parseFloat(resp.rateUsd))
    THEN "Invalid price data received"
    ELSE IF LeqZero(parseFloat(resp.rateUsd))
    THEN "Invalid price value"
    ELSE Undefined

\* getCryptoPrice.execute: [result, requests]
getCryptoPrice_execute(context, e, resp) ==
    LET normalizedId == trim(toLowerCase(context.crypto_id))
        failed(message) ==
            [name |-> context.crypto_id,
             symbol |-> Str_UNKNOWN,
             priceUsd |-> Str_0,
             changePercent24Hr |-> "N/A",
             error |-> message]
        before == getPrice_throwBeforeFetch(normalizedId, e)
        after == getPrice_throwAfterFetch(resp)
    IN  IF normalizedId = << >>
        THEN [result |-> failed("Cryptocurrency ID cannot be empty or whitespace only"),
              requests |-> << >>]
        ELSE IF before # Undefined
        THEN [result |-> failed(before), requests |-> << >>]
        ELSE IF after # Undefined
        THEN [result |-> failed(after),
              requests |-> << Request("rates", 0, 10) >>]
        ELSE [result |-> [name |-> OrStr(resp.id, normalizedId),
                          symbol |-> OrStr(resp.symbol, toUpperCase(normalizedId)),
                          priceUsd |-> resp.rateUsd,
                          changePercent24Hr |-> "N/A",
                          error |-> Undefined],
              requests |-> << Request("rates", 0, 10) >>]

ToolGetCryptoPrice ==
    /\ pc = "idle"
    /\ LET r == getCryptoPrice_execute(input, env, world.rates)
       IN  /\ tool' = << [name |-> "get-crypto-price", result |-> r.result] >>
           /\ outbox' = r.requests
    /\ pc' = "tool"
    /\ UNCHANGED << config, other, now, ticksLeft, price, sentiment, news, report,
                    fbSeen >>

(***************************************************************************)
(* Workflow step 2: fetch-sentiment-score                                  *)
(***************************************************************************)
\* what a call of generateFallbackSentiment leaves in fbSeen
Seen(copy, symbol, t, value) ==
    << [copy |-> copy, symbol |-> symbol, at |-> t, value |-> value] >>

\* the error thrown once the request has been answered (or not), or Undefined
wf_sentimentThrowAfterFetch(resp) ==
    IF resp.kind = "network_error" THEN "fetch failed"
    ELSE IF resp.kind = "no_response" THEN "This operation was aborted"
    ELSE IF ~ok(resp.status)
    THEN (IF resp.status = 401 THEN "Invalid CoinMarketCap API key"
          ELSE IF resp.status = 429
          THEN "CoinMarketCap API rate limit exceeded"
          ELSE IF resp.status >= 500
          THEN "CoinMarketCap API temporarily unavailable"
          ELSE "CoinMarketCap API error")
    ELSE IF resp.shape = "invalid_json" THEN "Unexpected token in JSON"
    ELSE IF resp.shape \in {"null", "no_status"}
    THEN "Invalid response format from CoinMarketCap API"
    ELSE IF resp.error_code # "0" THEN "API Error"
    ELSE IF resp.data # "list" THEN "No Fear & Greed data available"
    ELSE IF ~resp.valueIsNumber THEN "Invalid Fear & Greed data format"
    ELSE IF resp.value < N(0) \/ resp.value > N(100)
    THEN "Invalid Fear & Greed value"
    ELSE Undefined

\* the record returned when COINMARKETCAP_API_KEY is not set
wf_sentimentNoKeyRecord(inputData) ==
    [sentiment |-> "neutral",
     score |-> 0,
     fearGreedValue |-> N(50),
     classification |-> "Neutral (API Unavailable)",
     price_error |-> inputData.error,
     sentiment_error |-> "API key not configured, using fallback sentiment"]
    @@ inputData

\* the record returned on the primary path
wf_sentimentRecord(inputData, resp) ==
    LET fearGreedValue == resp.value
        classification ==
            IF resp.value_classification # ""
            THEN resp.value_classification
            ELSE wf_getFearGreedClassification(fearGreedValue)
        conv == wf_convertToSentiment(fearGreedValue)
    IN  [sentiment |-> conv.sentiment,
         score |-> conv.score,
         fearGreedValue |-> fearGreedValue,
         classification |-> classification,
         price_error |-> inputData.error,
         sentiment_error |-> Undefined]
        @@ inputData

\* the record the catch block returns
wf_sentimentFallbackRecord(inputData, message, t, z) ==
    LET fallbackSentiment ==
            wf_generateFallbackSentiment(
                OrStr(inputData.crypto_symbol, Str_UNKNOWN), t, z)
    IN  [sentiment |-> fallbackSentiment.sentiment,
         score |-> fallbackSentiment.score,
         fearGreedValue |-> OrNum(fallbackSentiment.fear_greed_value, N(50)),
         classification |-> "Neutral (Fallback)",
         price_error |-> inputData.error,
         sentiment_error |-> message]
        @@ inputData

\* fbSeen after the catch block has run
wf_sentimentFallbackSeen(inputData, t, z) ==
    LET symbol == OrStr(inputData.crypto_symbol, Str_UNKNOWN)
    IN  Seen("wf", symbol, t,
             wf_generateFallbackSentiment(symbol, t, z).fear_greed_value)

\* WfSentimentCall with the primary call left out after a price error
WfSentimentCall_blockedByPriceError ==
    /\ pc = "sentiment"
    /\ LET inputData == price[1]
       IN  IF inputData.crypto_symbol = << >> \/ inputData.error # Undefined
           THEN /\ sentiment' =
                     << wf_sentimentFallbackRecord(inputData,
                            "Invalid cryptocurrency symbol for sentiment analysis",
                            now, zone) >>
                /\ fbSeen' = wf_sentimentFallbackSeen(inputData, now, zone)
                /\ pc' = "news"
                /\ outbox' = outbox
           ELSE IF ~env.COINMARKETCAP_API_KEY
           THEN /\ sentiment' = << wf_sentimentNoKeyRecord(inputData) >>
                /\ pc' = "news"
                /\ UNCHANGED << outbox, fbSeen >>
           ELSE /\ outbox' = Append(outbox, Request("fng", 0, 10))
                /\ pc' = "sentiment_wait"
                /\ UNCHANGED << sentiment, fbSeen >>
    /\ UNCHANGED << config, other, now, ticksLeft, price, news, report, tool >>

\* execute, up to the await of fetch
WfSentimentCall ==
    /\ pc = "sentiment"
    /\ LET inputData == price[1]
       IN  IF inputData.crypto_symbol = << >>
           THEN /\ sentiment' =
                     << wf_sentimentFallbackRecord(inputData,
                            "Invalid cryptocurrency symbol for sentiment analysis",
                            now, zone) >>
                /\ fbSeen' = wf_sentimentFallbackSeen(inputData, now, zone)
                /\ pc' = "news"
                /\ outbox' = outbox
           ELSE IF ~env.COINMARKETCAP_API_KEY
           THEN /\ sentiment' = << wf_sentimentNoKeyRecord(inputData) >>
                /\ pc' = "news"
                /\ UNCHANGED << outbox, fbSeen >>
           ELSE /\ outbox' = Append(outbox, Request("fng", 0, 10))
                /\ pc' = "sentiment_wait"
                /\ UNCHANGED << sentiment, fbSeen >>
    /\ UNCHANGED << config, other, now, ticksLeft, price, news, report, tool >>

\* execute, from the answer (or the 10 s abort) on
WfSentimentResponse ==
    /\ pc = "sentiment_wait"
    /\ Settles(outbox[Len(outbox)], world.fng)
    /\ LET inputData == price[1]
           thrown == wf_sentimentThrowAfterFetch(world.fng)
       IN  IF thrown # Undefined
           THEN /\ sentiment' =
                     << wf_sentimentFallbackRecord(inputData, thrown, now, zone) >>
                /\ fbSeen' = wf_sentimentFallbackSeen(inputData, now, zone)
           ELSE /\ sentiment' = << wf_sentimentRecord(inputData, world.fng) >>
                /\ fbSeen' = fbSeen
    /\ pc' = "news"
    /\ UNCHANGED << config, other, now, ticksLeft, price, news, report, tool, outbox >>

(***************************************************************************)
(* Tool get-sentiment-score                                                *)
(***************************************************************************)
\* /^[A-Z0-9]{2,10}$/.test(s)
IsValidSymbolPattern(s) ==
    /\ Len(s) >= 2
    /\ Len(s) <= 10
    /\ \A i \in 1..Len(s) : InSeq(Upper, s[i]) \/ IsDigit(s[i])

invalidSymbols == { << "X", "X", "X" >>, << "N", "U", "L", "L" >>, << "U", "N", "D", "E", "F", "I", "N", "E", "D" >>, << "T", "E", "S", "T" >> }

\* getSentimentScore.execute: the error thrown before
\* fetchSentimentWithFallback is called, or Undefined
getSentimentScore_throw(normalizedSymbol) ==
    IF normalizedSymbol = << >> THEN "Cryptocurrency symbol cannot be empty"
    ELSE IF ~IsValidSymbolPattern(normalizedSymbol)
    THEN "Invalid cryptocurrency symbol format"
    ELSE IF normalizedSymbol \in invalidSymbols
    THEN "Invalid cryptocurrency symbol"
    ELSE Undefined

\* fetchSentimentWithFallback: the error its try block throws, or Undefined
tool_sentimentThrowAfterFetch(resp) ==
    IF resp.kind = "network_error" THEN "fetch failed"
    ELSE IF resp.kind = "no_response" THEN "This operation was aborted"
    ELSE IF ~ok(resp.status)
    THEN (IF resp.status = 401
          THEN "Invalid CoinMarketCap API key. Please check your configuration."
          ELSE IF resp.status = 429
          THEN "CoinMarketCap API rate limit exceeded. Please try again later."
          ELSE IF resp.status >= 500
          THEN "CoinMarketCap API is temporarily unavailable."
          ELSE "CoinMarketCap API error")
    ELSE IF resp.shape = "invalid_json" THEN "Unexpected token in JSON"
    ELSE IF resp.shape = "null"
    THEN "Invalid response format from CoinMarketCap API"
    ELSE IF resp.shape = "no_status" THEN "Invalid API response structure"
    ELSE IF resp.error_code # "0" THEN "CoinMarketCap API Error"
    ELSE IF resp.data # "list"
    THEN "No Fear & Greed data available from CoinMarketCap"
    ELSE IF ~resp.valueIsNumber THEN "Invalid Fear & Greed data format"
    ELSE IF resp.value < N(0) \/ resp.value > N(100)
    THEN "Invalid Fear & Greed value"
    ELSE Undefined

\* fetchSentimentWithFallback: [result, requests, fallback]; fallback tells
\* whether generateFallbackSentiment was called
fetchSentimentWithFallback(symbol, e, resp, t, z) ==
    IF ~e.COINMARKETCAP_API_KEY
    THEN [result |-> tool_generateFallbackSentiment(symbol, t, z),
          requests |-> << >>, fallback |-> TRUE]
    ELSE IF tool_sentimentThrowAfterFetch(resp) # Undefined
    THEN [result |-> tool_generateFallbackSentiment(symbol, t, z),
          requests |-> << Request("fng", 0, 10) >>, fallback |-> TRUE]
    ELSE LET fearGreedValue == resp.value
             classification ==
                 IF resp.value_classification # ""
                 THEN resp.value_classification
                 ELSE tool_getFearGreedClassification(fearGreedValue)
             conv == tool_convertToSentiment(fearGreedValue)
         IN  [result |-> [symbol |-> symbol,
                          sentiment |-> conv.sentiment,
                          score |-> conv.score,
                          confidence |-> 85,
                          fear_greed_value |-> fearGreedValue,
                          analysis |-> [kind |-> "primary",
                                        value |-> fearGreedValue,
                                        classification |-> classification,
                                        sentiment |-> conv.sentiment],
                          error |-> Undefined],
              requests |-> << Request("fng", 0, 10) >>, fallback |-> FALSE]

\* getSentimentScore.execute; the record of its catch block has no
\* fear_greed_value
getSentimentScore_execute(context, e, resp, t, z) ==
    LET normalizedSymbol == trim(toUpperCase(context.crypto_symbol))
        thrown == getSentimentScore_throw(normalizedSymbol)
    IN  IF thrown # Undefined
        THEN [result |-> [symbol |-> context.crypto_symbol,
                          sentiment |-> "neutral",
                          score |-> 0,
                          confidence |-> 10,
                          analysis |-> [kind |-> "error", message |-> thrown],
                          error |-> thrown],
              requests |-> << >>, fallback |-> FALSE]
        ELSE fetchSentimentWithFallback(normalizedSymbol, e, resp, t, z)

ToolGetSentimentScore ==
    /\ pc = "idle"
    /\ LET r == getSentimentScore_execute(input, env, world.fng, now, zone)
       IN  /\ tool' = << [name |-> "get-sentiment-score", result |-> r.result] >>
           /\ outbox' = r.requests
           /\ fbSeen' = IF r.fallback
                        THEN Seen("tool", r.result.symbol, now,
                                  r.result.fear_greed_value)
                        ELSE fbSeen
    /\ pc' = "tool"
    /\ UNCHANGED << config, other, now, ticksLeft, price, sentiment, news, report >>

(***************************************************************************)
(* Workflow step 3: fetch-crypto-news                                      *)
(***************************************************************************)
\* the source of an article: no source object, a source without a name, or
\* the name
SourceMissing == "<no source>"

SourceNameless == "<no name>"

\* articles.slice(0, n): n is truncated to an integer
Slice(seq, n) == SubSeq(seq, 1, Min(Len(seq), n \div Scale))

\* data.articles.map(...) throws a TypeError on an element that is no object
\* or has no source
wf_newsMapThrows(articles) ==
    \E i \in 1..Len(articles) :
        ~articles[i].isObject \/ articles[i].source = SourceMissing

wf_newsMap(articles) ==
    [i \in 1..Len(articles) |->
        [title |-> articles[i].title,
         description |-> articles[i].description,
         url |-> articles[i].url,
         publishedAt |-> articles[i].publishedAt,
         source |-> IF articles[i].source = SourceNameless
                    THEN Undefined
                    ELSE articles[i].source]]

\* the articles the step is left with once the request has been answered
wf_newsArticles(resp) ==
    IF resp.kind # "http" THEN << >>
    ELSE IF ~ok(resp.status) THEN << >>
    ELSE IF resp.shape # "object" THEN << >>
    ELSE IF ~resp.isArray THEN << >>
    ELSE IF wf_newsMapThrows(resp.articles) THEN << >>
    ELSE wf_newsMap(resp.articles)

\* wf_newsRecord with the symbol it was given put in upper case
wf_newsRecord_normalizes(inputData, articles) ==
    [priceData |-> [name |-> inputData.name,
                    symbol |-> toUpperCase(inputData.symbol),
                    priceUsd |-> inputData.priceUsd,
                    changePercent24Hr |-> inputData.changePercent24Hr],
     sentimentData |-> [sentiment |-> inputData.sentiment,
                        score |-> inputData.score,
                        fearGreedValue |-> inputData.fearGreedValue,
                        classification |-> inputData.classification],
     articles |-> articles]

\* the record the step returns
wf_newsRecord(inputData, articles) ==
    [priceData |-> [name |-> inputData.name,
                    symbol |-> inputData.symbol,
                    priceUsd |-> inputData.priceUsd,
                    changePercent24Hr |-> inputData.changePercent24Hr],
     sentimentData |-> [sentiment |-> inputData.sentiment,
                        score |-> inputData.score,
                        fearGreedValue |-> inputData.fearGreedValue,
                        classification |-> inputData.classification],
     articles |-> articles]

\* WfNewsCall without its test of NEWS_API_KEY
WfNewsCall_noKeyTest ==
    /\ pc = "news"
    /\ outbox' = Append(outbox, Request("news", sentiment[1].news_limit,
                                        NoTimeout))
    /\ pc' = "news_wait"
    /\ UNCHANGED << config, other, now, ticksLeft, price, sentiment, news, report,
                    tool, fbSeen >>

\* execute, up to the await of fetch
WfNewsCall ==
    /\ pc = "news"
    /\ LET inputData == sentiment[1]
       IN  IF env.NEWS_API_KEY
           THEN /\ outbox' = Append(outbox,
                                    Request("news", inputData.news_limit,
                                            NoTimeout))
                /\ pc' = "news_wait"
                /\ news' = news
           ELSE /\ news' = << wf_newsRecord(inputData, << >>) >>
                /\ pc' = "compile"
                /\ outbox' = outbox
    /\ UNCHANGED << config, other, now, ticksLeft, price, sentiment, report, tool, fbSeen >>

\* WfNewsResponse with the TypeError of a sourceless article thrown out of
\* the step
WfNewsResponse_throws ==
    /\ pc = "news_wait"
    /\ Settles(outbox[Len(outbox)], world.news)
    /\ IF world.news.kind = "http" /\ ok(world.news.status)
          /\ world.news.shape = "object" /\ world.news.isArray
          /\ wf_newsMapThrows(world.news.articles)
       THEN /\ news' = news
            /\ pc' = "failed"
       ELSE /\ news' = << wf_newsRecord(sentiment[1],
                                        wf_newsArticles(world.news)) >>
            /\ pc' = "compile"
    /\ UNCHANGED << config, other, now, ticksLeft, price, sentiment, report, tool, outbox,
                    fbSeen >>

\* execute, from the answer on; this fetch has no abort signal, so a provider
\* that never answers leaves the step waiting
WfNewsResponse ==
    /\ pc = "news_wait"
    /\ Settles(outbox[Len(outbox)], world.news)
    /\ news' = << wf_newsRecord(sentiment[1], wf_newsArticles(world.news)) >>
    /\ pc' = "compile"
    /\ UNCHANGED << config, other, now, ticksLeft, price, sentiment, report, tool, outbox,
                    fbSeen >>

(***************************************************************************)
(* Workflow step 4: compile-analysis                                       *)
(***************************************************************************)
compileAnalysis_record(inputData, t) ==
    [analysis |-> "analysisText",
     crypto_info |-> [name |-> inputData.priceData.name,
                      symbol |-> inputData.priceData.symbol,
                      price_usd |-> inputData.priceData.priceUsd,
                      change_24h |-> inputData.priceData.changePercent24Hr],
     sentiment_analysis |->
         [sentiment |-> inputData.sentimentData.sentiment,
          score |-> inputData.sentimentData.score,
          fear_greed_value |-> inputData.sentimentData.fearGreedValue,
          classification |-> inputData.sentimentData.classification],
     latest_news |->
         [i \in 1..Len(inputData.articles) |->
             [title |-> inputData.articles[i].title,
              description |-> inputData.articles[i].description,
              url |-> inputData.articles[i].url,
              published_at |-> inputData.articles[i].publishedAt,
              source |-> inputData.articles[i].source]],
     timestamp |-> t]

\* execute: a missing input record is thrown at once; otherwise the agent's
\* stream either delivers its text or throws
WfCompile ==
    /\ pc = "compile"
    /\ IF news # << >> /\ world.llm = "answers"
       THEN /\ report' = << compileAnalysis_record(news[1], now) >>
            /\ pc' = "done"
       ELSE /\ report' = report
            /\ pc' = "failed"
    /\ UNCHANGED << config, other, now, ticksLeft, price, sentiment, news, tool, outbox,
                    fbSeen >>

(***************************************************************************)
(* The workflow run and the clock                                          *)
(***************************************************************************)
\* a run of cryptoAnalysisWorkflow begins with its first step
WfStart ==
    /\ pc = "idle"
    /\ pc' = "price"
    /\ UNCHANGED << config, other, now, ticksLeft, price, sentiment, news, report, tool,
                    outbox, fbSeen >>

\* the run is over: its records are dropped
WfReturn ==
    /\ pc \in {"done", "failed"}
    /\ pc' = "idle"
    /\ price' = << >>
    /\ sentiment' = << >>
    /\ news' = << >>
    /\ report' = << >>
    /\ outbox' = << >>
    /\ UNCHANGED << config, other, now, ticksLeft, tool, fbSeen >>

\* the tool's result has been handed to the agent
ToolReturn ==
    /\ pc = "tool"
    /\ pc' = "idle"
    /\ tool' = << >>
    /\ outbox' = << >>
    /\ UNCHANGED << config, other, now, ticksLeft, price, sentiment, news, report,
                    fbSeen >>

\* how far the clock advances between two calls
TickMinutes == 30

\* how often the clock advances where it advances at all
MaxTicks == 1

Tick ==
    /\ pc = "idle"
    /\ ticksLeft > 0
    /\ now' = now + TickMinutes
    /\ ticksLeft' = ticksLeft - 1
    /\ UNCHANGED << config, other, pc, price, sentiment, news, report, tool, outbox,
                    fbSeen >>

(***************************************************************************)
(* Tool get-crypto-news                                                    *)
(***************************************************************************)
\* a url by what new URL(url) makes of it: whether it parses, and its
\* protocol; raw is "" for a missing url
Url(raw, parses, protocol) ==
    [raw |-> raw, parses |-> parses, protocol |-> protocol]

\* a date string by what new Date(s) makes of it: whether getTime() is a
\* number, and getFullYear(); raw is "" for a missing date; at is the clock
\* value of a string made by new Date().toISOString(), else 0
DateStr(raw, valid, year, at) ==
    [raw |-> raw, valid |-> valid, year |-> year, at |-> at]

\* new Date(ms).toISOString(), the time given in minutes
toISOString(t) == DateStr("<toISOString>", TRUE, 1970 + t \div 525960, t)

isValidUrl(url) ==
    IF url.raw = "" THEN FALSE
    ELSE IF ~url.parses THEN FALSE
    ELSE url.protocol = "http:" \/ url.protocol = "https:"

isValidDate(dateString) ==
    IF dateString.raw = "" THEN FALSE
    ELSE dateString.valid /\ dateString.year > 2000

\* pattern.test(s) for a pattern that is a literal word with the i flag
ContainsIgnoreCase(s, word) ==
    \E i \in 1..Len(s) :
        /\ i + Len(word) - 1 <= Len(s)
        /\ toLowerCase(SubSeq(s, i, i + Len(word) - 1)) = word

\* /\{.*\}/.test(s)
HasBraces(s) ==
    \E i \in 1..Len(s) : \E j \in (i + 1)..Len(s) :
        /\ s[i] = "{"
        /\ s[j] = "}"
        /\ \A k \in (i + 1)..(j - 1) : s[k] \notin {"\n", "\r"}

MatchesDangerousPattern(s) ==
    \/ ContainsIgnoreCase(s, << "<", "s", "c", "r", "i", "p", "t" >>)
    \/ ContainsIgnoreCase(s, << "j", "a", "v", "a", "s", "c", "r", "i", "p", "t", ":" >>)
    \/ ContainsIgnoreCase(s, << "d", "a", "t", "a", ":" >>)
    \/ ContainsIgnoreCase(s, << "v", "b", "s", "c", "r", "i", "p", "t", ":" >>)
    \/ ContainsIgnoreCase(s, << "<", "i", "f", "r", "a", "m", "e" >>)
    \/ HasBraces(s)

\* s.substring(0, n) of a text
Substring(text, n) == Text(text.text, Min(text.len, n))

\* the map callback of fetchCryptoNewsWithFallback
sanitizeArticle(article, t) ==
    [title |-> Substring(IF article.title.len = 0
                         THEN Text("No title", 8)
                         ELSE article.title, 200),
     description |-> Substring(IF article.description.len = 0
                               THEN Text("No description available", 24)
                               ELSE article.description, 500),
     url |-> IF isValidUrl(article.url)
             THEN article.url
             ELSE Url("#", FALSE, ""),
     publishedAt |-> IF isValidDate(article.publishedAt)
                     THEN article.publishedAt
                     ELSE toISOString(t),
     source |-> IF article.source \in {SourceMissing, SourceNameless}
                THEN "Unknown"
                ELSE article.source]

\* data.articles.filter(...).slice(0, limit).map(...)
sanitizeArticles(articles, limit, t) ==
    LET kept == SelectSeq(articles, LAMBDA a : a.isObject)
        cut == Slice(kept, limit)
    IN  [i \in 1..Len(cut) |-> sanitizeArticle(cut[i], t)]

\* the six templated articles, kept by their template: the interpolated
\* query is left out of title and description
baseArticles(query, t) ==
    << [title |-> Text("<query> Market Analysis: Key Trends and Developments",
                       Len(query) + 45),
        description |-> Text("<templated 1>", 120),
        url |-> Url("https://coindesk.com", TRUE, "https:"),
        publishedAt |-> toISOString(t),
        source |-> "CoinDesk"],
       [title |-> Text("Bitcoin Price Analysis and Market Outlook", 41),
        description |-> Text("<templated 2>", 120),
        url |-> Url("https://cointelegraph.com", TRUE, "https:"),
        publishedAt |-> toISOString(t - 60),
        source |-> "Cointelegraph"],
       [title |-> Text("Ethereum Network Upgrade and DeFi Impact", 40),
        description |-> Text("<templated 3>", 120),
        url |-> Url("https://decrypt.co", TRUE, "https:"),
        publishedAt |-> toISOString(t - 120),
        source |-> "Decrypt"],
       [title |-> Text("Global Crypto Regulation Updates and Market Response", 52),
        description |-> Text("<templated 4>", 120),
        url |-> Url("https://coindesk.com", TRUE, "https:"),
        publishedAt |-> toISOString(t - 180),
        source |-> "CoinDesk"],
       [title |-> Text("DeFi Protocol Security Analysis and Best Practices", 50),
        description |-> Text("<templated 5>", 120),
        url |-> Url("https://theblock.co", TRUE, "https:"),
        publishedAt |-> toISOString(t - 240),
        source |-> "The Block"],
       [title |-> Text("Institutional Adoption of Cryptocurrency Continues", 50),
        description |-> Text("<templated 6>", 120),
        url |-> Url("https://coindesk.com", TRUE, "https:"),
        publishedAt |-> toISOString(t - 300),
        source |-> "CoinDesk"] >>

\* fetchCryptoNewsFromAlternativeSource returning its templated articles
\* without the error message
fetchCryptoNewsFromAlternativeSource_noError(query, limit, t) ==
    IF query = << >> \/ trim(query) = << >>
    THEN [articles |->
              << [title |-> Text("Crypto News Service Temporarily Unavailable", 43),
                  description |-> Text("<last resort>", 120),
                  url |-> Url("#", FALSE, ""),
                  publishedAt |-> toISOString(t),
                  source |-> "System Notice"] >>,
          source |-> "error",
          error |-> "Invalid query for fallback news source"]
    ELSE LET lim == IF limit < N(1) \/ limit > N(20) THEN N(5) ELSE limit
         IN  [articles |->
                  Slice(baseArticles(query, t),
                        Min(lim, N(Len(baseArticles(query, t))))),
              source |-> "fallback",
              error |-> Undefined]

fetchCryptoNewsFromAlternativeSource(query, limit, t) ==
    IF query = << >> \/ trim(query) = << >>
    THEN [articles |->
              << [title |-> Text("Crypto News Service Temporarily Unavailable", 43),
                  description |-> Text("<last resort>", 120),
                  url |-> Url("#", FALSE, ""),
                  publishedAt |-> toISOString(t),
                  source |-> "System Notice"] >>,
          source |-> "error",
          error |-> "Invalid query for fallback news source"]
    ELSE LET lim == IF limit < N(1) \/ limit > N(20) THEN N(5) ELSE limit
         IN  [articles |->
                  Slice(baseArticles(query, t),
                        Min(lim, N(Len(baseArticles(query, t))))),
              source |-> "fallback",
              error |-> "Primary news source unavailable, using fallback content"]

\* tool_newsThrows without its test for an empty list of articles
tool_newsThrows_emptyAllowed(resp, limit, t) ==
    \/ resp.kind # "http"
    \/ ~ok(resp.status)
    \/ resp.shape # "object"
    \/ resp.apiStatus = "error"
    \/ ~resp.isArray

\* fetchCryptoNewsWithFallback: whether its try block throws
tool_newsThrows(resp, limit, t) ==
    \/ resp.kind # "http"
    \/ ~ok(resp.status)
    \/ resp.shape # "object"
    \/ resp.apiStatus = "error"
    \/ ~resp.isArray
    \/ sanitizeArticles(resp.articles, limit, t) = << >>

\* fetchCryptoNewsWithFallback: [result, requests]
fetchCryptoNewsWithFallback(query, limit, e, resp, t) ==
    IF ~e.NEWSAPI_KEY
    THEN [result |-> fetchCryptoNewsFromAlternativeSource(query, limit, t),
          requests |-> << >>]
    ELSE IF tool_newsThrows(resp, limit, t)
    THEN [result |-> fetchCryptoNewsFromAlternativeSource(query, limit, t),
          requests |-> << Request("news", limit, 15) >>]
    ELSE [result |-> [articles |-> sanitizeArticles(resp.articles, limit, t),
                      source |-> "NewsAPI",
                      error |-> Undefined],
          requests |-> << Request("news", limit, 15) >>]

\* getCryptoNews.execute; context.query is the request's crypto_id and
\* context.limit its news_limit
getCryptoNews_execute(context, e, resp, t) ==
    LET sanitizedQuery == OrStr(trim(context.crypto_id), Str_cryptocurrency)
        validLimit == Max(N(1), Min(N(20), OrNum(context.news_limit, N(5))))
    IN  IF MatchesDangerousPattern(sanitizedQuery)
        THEN [result |->
                  [articles |->
                       << [title |-> Text("Error Fetching News", 19),
                           description |->
                               Text("Invalid characters in search query", 34),
                           url |-> Url("#", FALSE, ""),
                           publishedAt |-> toISOString(t),
                           source |-> "System Error"] >>,
                   error |-> "Invalid characters in search query",
                   source |-> "fallback"],
              requests |-> << >>]
        ELSE fetchCryptoNewsWithFallback(sanitizedQuery, validLimit, e, resp, t)

ToolGetCryptoNews ==
    /\ pc = "idle"
    /\ LET r == getCryptoNews_execute(input, env, world.news, now)
       IN  /\ tool' = << [name |-> "get-crypto-news", result |-> r.result] >>
           /\ outbox' = r.requests
    /\ pc' = "tool"
    /\ UNCHANGED << config, other, now, ticksLeft, price, sentiment, news, report,
                    fbSeen >>

(***************************************************************************)
(* The requests, configurations and provider answers explored              *)
(***************************************************************************)
Str_bitcoin == << "b", "i", "t", "c", "o", "i", "n" >>

Str_BTC == << "B", "T", "C" >>

IdSamples ==
    { Str_bitcoin,
      << "B", "i", "t", "c", "o", "i", "n", " " >>,
      << "u", "s", "d", "-", "c", "o", "i", "n" >>,
      << >>,
      << " ", " " >>,
      << "1", "2", "3", "4", "5" >>,
      << ".", ".", "/", "e", "t", "c" >>,
      << "<", "s", "c", "r", "i", "p", "t", ">" >>,
      << "e", "t", "h", "{", "x", "}" >>,
      << "a", "\\", "b" >>,
      << "[", "b", "t", "c", "]" >> }

SymbolSamples ==
    { Str_BTC, << "b", "t", "c" >>, << "E", "T", "H" >>, << "D", "O", "G", "E" >>, << >>, << " " >>, << "X" >>, << "T", "E", "S", "T" >>,
      << "B", "-", "C" >> }

\* news_limit: 0, 1, 2, 2.5, 3, 20, 25 and -1
LimitSamples == { 0, N(1), N(2), N(2) + 1, N(3), N(20), N(25), N(0 - 1) }

RateSamples ==
    { << "4", "2", "0", "0", "0", ".", "5" >>, << "0", ".", "0", "0", "0", "0", "1", "2" >>, << ".", "5" >>, << " ", "7" >>, << "+", "3" >>, << "1", "2", "a", "b", "c" >>,
      << "1", "e", "3" >>, << "5", "e" >>, << "0" >>, << "0", ".", "0", "0" >>, << "-", "5" >>, << >>, << "a", "b", "c" >>, << "N", "a", "N" >>,
      << "I", "n", "f", "i", "n", "i", "t", "y" >>, << "-", "I", "n", "f", "i", "n", "i", "t", "y" >>, << "1", "e", "9", "9", "9" >>, << "1", "e", "-", "9", "9", "9" >>, << "-", "0" >> }

StatusSamples == { 400, 401, 404, 429, 500, 503 }

RatesSamples ==
    { RatesDown(k) : k \in {"network_error", "no_response"} }
    \cup { RatesStatus(s) : s \in StatusSamples }
    \cup { RatesBody(s) : s \in {"invalid_json", "null", "no_data"} }
    \cup { RatesData(i, s, r) :
             i \in {Str_bitcoin, << >>}, s \in {Str_BTC, << >>},
             r \in RateSamples }

\* every integer value from -1 to 101, and the non-integers in between
FngValues == (N(0) - Scale)..N(101)

FngSamples ==
    { FngDown(k) : k \in {"network_error", "no_response"} }
    \cup { FngStatus(s) : s \in StatusSamples }
    \cup { FngBody(s, "0", "missing", FALSE, 0, "") :
             s \in {"invalid_json", "null", "no_status"} }
    \cup { FngBody("status", "1002", "list", TRUE, N(55), "Greed"),
           FngBody("status", "0", "missing", FALSE, 0, ""),
           FngBody("status", "0", "empty", FALSE, 0, ""),
           FngBody("status", "0", "list", FALSE, 0, "") }
    \cup { FngValue(v, "") : v \in FngValues }
    \cup { FngValue(N(55), "Greed"), FngValue(N(30), "Greed") }

GoodArticle ==
    Article(TRUE, Text("Bitcoin rallies", 15), Text("Prices rose.", 12),
            Url("https://news.example/a", TRUE, "https:"),
            DateStr("2026-01-04T10:00:00Z", TRUE, 2026, 0), "Reuters")

DirtyArticle ==
    Article(TRUE, Text("A very long headline", 250), NoText,
            Url("not-a-url", FALSE, ""),
            DateStr("1999-01-01", TRUE, 1999, 0), SourceNameless)

NoSourceArticle ==
    Article(TRUE, NoText, Text("A very long description", 600),
            Url("ftp://news.example/b", TRUE, "ftp:"),
            DateStr("yesterday", FALSE, 0, 0), SourceMissing)

NullArticle ==
    Article(FALSE, NoText, NoText, Url("", FALSE, ""),
            DateStr("", FALSE, 0, 0), SourceMissing)

ArticleSamples == { GoodArticle, DirtyArticle, NoSourceArticle, NullArticle }

\* how many articles the news provider sends at most
MaxArticles == 3

ArticleLists == UNION { [1..k -> ArticleSamples] : k \in 0..MaxArticles }

GoodLists == UNION { [1..k -> {GoodArticle}] : k \in 0..MaxArticles }

NewsFailures ==
    { NewsDown(k) : k \in {"network_error", "no_response"} }
    \cup { NewsStatus(s) : s \in StatusSamples }
    \cup { NewsBody(s, "", FALSE, << >>) : s \in {"invalid_json", "null"} }
    \cup { NewsBody("object", "error", FALSE, << >>),
           NewsBody("object", "ok", FALSE, << >>) }

NewsSamples ==
    NewsFailures \cup { NewsBody("object", "ok", TRUE, l) : l \in ArticleLists }

\* Monday 2026-01-05 00:00 UTC, in minutes since the epoch
WeekStart == 20458 * 1440

\* the hours of the clock's start: one week
WeekHours == 168

StartTimes == { WeekStart + 60 * h : h \in 0..(WeekHours - 1) }

\* UTC, India (+05:30) and New York (-05:00)
Zones == { 0, 330, 0 - 300 }

Env(coincap, coinmarketcap, news_api, newsapi) ==
    [COINCAP_API_KEY |-> coincap, COINMARKETCAP_API_KEY |-> coinmarketcap,
     NEWS_API_KEY |-> news_api, NEWSAPI_KEY |-> newsapi]

AllSet == Env(TRUE, TRUE, TRUE, TRUE)

Input(id, symbol, limit) ==
    [crypto_id |-> id, crypto_symbol |-> symbol, news_limit |-> limit]

DefaultInput == Input(Str_bitcoin, Str_BTC, N(3))

World(rates, fng, newsResp, llm) ==
    [rates |-> rates, fng |-> fng, news |-> newsResp, llm |-> llm]

DefaultRates == RatesData(Str_bitcoin, Str_BTC, << "4", "2", "0", "0", "0", ".", "5" >>)

DefaultFng == FngValue(N(55), "Greed")

DefaultNews == NewsBody("object", "ok", TRUE, << GoodArticle, GoodArticle >>)

DefaultWorld == World(DefaultRates, DefaultFng, DefaultNews, "answers")

\* a start of the system: ticksLeft is 0 except where the clock is explored
Config(e, z, t, in, w) ==
    [env |-> e, zone |-> z, now |-> t, ticksLeft |-> 0, input |-> in,
     world |-> w]

\* every identifier and symbol, with and without the rates credential
PriceInputConfigs ==
    { Config(Env(k, TRUE, TRUE, TRUE), 0, WeekStart,
             Input(i, s, N(3)),
             DefaultWorld) :
        k \in BOOLEAN, i \in IdSamples, s \in {Str_BTC, << "b", "t", "c", " " >>, << >>, << " " >>} }

\* every answer of the rates provider
PriceAnswerConfigs ==
    { Config(Env(k, TRUE, TRUE, TRUE), 0, WeekStart, DefaultInput,
             World(r, DefaultFng, DefaultNews, "answers")) :
        k \in BOOLEAN, r \in RatesSamples }

\* every symbol, with and without the sentiment credential, after a price
\* fetch that succeeded or failed
SentimentInputConfigs ==
    { Config(Env(TRUE, k, TRUE, TRUE), 0, WeekStart,
             Input(Str_bitcoin, s, N(3)),
             World(r, f, DefaultNews, "answers")) :
        k \in BOOLEAN, s \in SymbolSamples,
        r \in {DefaultRates, RatesStatus(404)},
        f \in {DefaultFng, FngDown("network_error")} }

\* every answer of the sentiment provider
SentimentAnswerConfigs ==
    { Config(AllSet, 0, WeekStart, DefaultInput,
             World(DefaultRates, f, DefaultNews, "answers")) :
        f \in FngSamples }

\* the fallback at every hour of a week, in every zone
ClockConfigs ==
    { [Config(AllSet, z, t, DefaultInput,
               World(DefaultRates, FngDown("no_response"), DefaultNews,
                     "answers"))
         EXCEPT !.ticksLeft = MaxTicks] :
        z \in Zones, t \in StartTimes }

\* the fallback for a second symbol at every hour of the weekend
WeekendConfigs ==
    { Config(AllSet, z, t,
             Input(Str_bitcoin, << "D", "O", "G", "E" >>, N(3)),
             World(DefaultRates, FngDown("no_response"), DefaultNews,
                   "answers")) :
        z \in Zones, t \in { u \in StartTimes : getDay(u, 0) \in {0, 6} } }

\* every limit, with and without the news credentials
NewsInputConfigs ==
    { Config(Env(TRUE, TRUE, a, b), 0, WeekStart,
             Input(Str_bitcoin, Str_BTC, l),
             World(r, DefaultFng, n, "answers")) :
        a \in BOOLEAN, b \in BOOLEAN, l \in LimitSamples,
        r \in {DefaultRates, RatesStatus(500)},
        n \in { NewsDown("network_error"), NewsStatus(500) }
              \cup { NewsBody("object", "ok", TRUE, g) : g \in GoodLists } }

\* every answer of the news provider
NewsAnswerConfigs ==
    { Config(AllSet, 0, WeekStart, Input(Str_bitcoin, Str_BTC, l),
             World(DefaultRates, DefaultFng, n, "answers")) :
        l \in {N(2), N(3)}, n \in NewsSamples }

\* every combination of providers that are down, and of credentials
OutageConfigs ==
    { Config(Env(a, b, c, c), 0, WeekStart, DefaultInput, World(r, f, n, m)) :
        a \in BOOLEAN, b \in BOOLEAN, c \in BOOLEAN,
        r \in {DefaultRates, RatesDown("network_error"),
               RatesDown("no_response")},
        f \in {DefaultFng, FngDown("network_error"), FngDown("no_response")},
        n \in {DefaultNews, NewsDown("network_error"),
               NewsDown("no_response")},
        m \in {"answers", "fails"} }

Configs ==
    PriceInputConfigs \cup PriceAnswerConfigs \cup SentimentInputConfigs
    \cup SentimentAnswerConfigs \cup ClockConfigs \cup NewsInputConfigs
    \cup NewsAnswerConfigs \cup OutageConfigs \cup WeekendConfigs

(***************************************************************************)
(* Specification                                                           *)
(***************************************************************************)
\* a run that is not being executed: its request, its position and the
\* values of its steps' inputData and results
Suspended(in, at, priceRec, sentimentRec, newsRec, reportRec, requests) ==
    [input |-> in, pc |-> at, price |-> priceRec, sentiment |-> sentimentRec,
     news |-> newsRec, report |-> reportRec, outbox |-> requests]

\* Yield with the price record in a variable of the module, shared by the
\* two runs
Yield_sharedPrice ==
    /\ pc # "tool"
    /\ input' = other.input
    /\ pc' = other.pc
    /\ price' = IF price # << >> THEN price ELSE other.price
    /\ sentiment' = other.sentiment
    /\ news' = other.news
    /\ report' = other.report
    /\ outbox' = other.outbox
    /\ other' = Suspended(input, pc, price, sentiment, news, report, outbox)
    /\ UNCHANGED << env, zone, now, ticksLeft, world, tool, fbSeen >>

\* the event loop leaves the run it was executing at an await (or between two
\* steps) and resumes the other one; each run keeps its own records, and
\* nothing else changes
Yield ==
    /\ pc # "tool"
    /\ input' = other.input
    /\ pc' = other.pc
    /\ price' = other.price
    /\ sentiment' = other.sentiment
    /\ news' = other.news
    /\ report' = other.report
    /\ outbox' = other.outbox
    /\ other' = Suspended(input, pc, price, sentiment, news, report, outbox)
    /\ UNCHANGED << env, zone, now, ticksLeft, world, tool, fbSeen >>

Init ==
    /\ \E c \in Configs :
          /\ env = c.env
          /\ zone = c.zone
          /\ now = c.now
          /\ ticksLeft = c.ticksLeft
          /\ input = c.input
          /\ world = c.world
    /\ pc = "idle"
    /\ price = << >>
    /\ sentiment = << >>
    /\ news = << >>
    /\ report = << >>
    /\ tool = << >>
    /\ outbox = << >>
    /\ fbSeen = << >>
    /\ other = Suspended(input, "idle", << >>, << >>, << >>, << >>, << >>)

Next ==
    \/ WfStart
    \/ WfPriceCall
    \/ WfPriceResponse
    \/ WfSentimentCall
    \/ WfSentimentResponse
    \/ WfNewsCall
    \/ WfNewsResponse
    \/ WfCompile
    \/ WfReturn
    \/ ToolGetCryptoPrice
    \/ ToolGetSentimentScore
    \/ ToolGetCryptoNews
    \/ ToolReturn
    \/ Tick

Spec == Init /\ [][Next]_vars

(***************************************************************************)
(* Two workflow runs in one process                                        *)
(***************************************************************************)
\* the requests of the two runs
OtherInput == Input(<< "u", "s", "d", "-", "c", "o", "i", "n" >>,
                    << "u", "s", "d", "c" >>, N(2))

\* credentials and provider answers under which two runs are interleaved
PairConfigs ==
    { Config(Env(a, b, c, c), 0, WeekStart, DefaultInput, World(r, f, n, m)) :
        a \in BOOLEAN, b \in BOOLEAN, c \in BOOLEAN,
        r \in {DefaultRates, RatesStatus(404)},
        f \in {DefaultFng, FngDown("no_response")},
        n \in {DefaultNews, NewsStatus(500)},
        m \in {"answers", "fails"} }

PairInit ==
    /\ \E c \in PairConfigs :
          /\ env = c.env
          /\ zone = c.zone
          /\ now = c.now
          /\ ticksLeft = c.ticksLeft
          /\ input = c.input
          /\ world = c.world
    /\ pc = "idle"
    /\ price = << >>
    /\ sentiment = << >>
    /\ news = << >>
    /\ report = << >>
    /\ tool = << >>
    /\ outbox = << >>
    /\ fbSeen = << >>
    /\ other = Suspended(OtherInput, "idle", << >>, << >>, << >>, << >>, << >>)

\* the steps of a run, and the switch from one run to the other
PairNext ==
    \/ WfStart
    \/ WfPriceCall
    \/ WfPriceResponse
    \/ WfSentimentCall
    \/ WfSentimentResponse
    \/ WfNewsCall
    \/ WfNewsResponse
    \/ WfCompile
    \/ WfReturn
    \/ Yield

PairSpec == PairInit /\ [][PairNext]_vars

(***************************************************************************)
(* What the records in the state are checked for                           *)
(***************************************************************************)
\* the tool result in the state, if it is the result of the tool called name
ToolResults(name) ==
    IF tool # << >> /\ tool[1].name = name THEN {tool[1].result} ELSE {}

\* the records the price fetcher has returned: the workflow step's and the
\* tool's
PriceRecords ==
    (IF price # << >> THEN {price[1]} ELSE {})
    \cup ToolResults("get-crypto-price")

\* the results of the primary path of the sentiment fetcher, each with the
\* value the provider sent
PrimaryResults ==
    (IF sentiment # << >> /\ sentiment[1].sentiment_error = Undefined
     THEN {[copy |-> "wf", value |-> world.fng.value,
            sentiment |-> sentiment[1].sentiment,
            score |-> sentiment[1].score,
            classification |-> sentiment[1].classification]}
     ELSE {})
    \cup { [copy |-> "tool", value |-> world.fng.value,
            sentiment |-> r.sentiment,
            score |-> r.score,
            classification |-> r.analysis.classification] :
              r \in { x \in ToolResults("get-sentiment-score") :
                         x.error = Undefined } }

\* value is the integer k
IsInt(value, k) == value = N(k)

\* value is one of the integers lo..hi
IsIntIn(value, lo, hi) == \E k \in lo..hi : value = N(k)

(***************************************************************************)
(* C1                                                                      *)
(***************************************************************************)
\* C1: every record returned by the price fetcher (workflow step and tool)
\* has a priceUsd that parses to a positive finite number when error is
\* absent, and priceUsd exactly "0" when error is present.
C1_PriceContract ==
    \A r \in PriceRecords :
        IF r.error = Undefined
        THEN parseFloat(r.priceUsd) = "positive"
        ELSE r.priceUsd = Str_0

(***************************************************************************)
(* C2                                                                      *)
(***************************************************************************)
\* C2: every record returned by the workflow's sentiment step has the
\* sentiment and the score that the conversion rule gives for the record's
\* own fearGreedValue.
C2_SentimentMatchesValue ==
    sentiment # << >> =>
        LET r == sentiment[1]
        IN  /\ r.score = Max(0 - ScoreDen,
                             Min(ScoreDen, r.fearGreedValue - N(50)))
            /\ (r.sentiment = "bullish") <=> (r.fearGreedValue >= N(60))
            /\ (r.sentiment = "bearish") <=> (r.fearGreedValue <= N(40))
            /\ r.sentiment \in {"bullish", "bearish", "neutral"}

(***************************************************************************)
(* C3                                                                      *)
(***************************************************************************)
\* C3: for every integer value in 0..100 that reaches convertToSentiment
\* (either copy), the sentiment is bullish iff value >= 60, bearish iff
\* value <= 40 and neutral otherwise, and the score is
\* clamp((value - 50) / 50, -1, 1); 60 is bullish, 40 bearish, 50 neutral,
\* 100 scores 1 and 0 scores -1.
C3_ConvertToSentiment ==
    \A r \in PrimaryResults :
        IsIntIn(r.value, 0, 100) =>
            /\ r.sentiment \in {"bullish", "bearish", "neutral"}
            /\ (r.sentiment = "bullish") <=> (r.value >= N(60))
            /\ (r.sentiment = "bearish") <=> (r.value <= N(40))
            /\ r.score = Max(0 - ScoreDen, Min(ScoreDen, r.value - N(50)))
            /\ IsInt(r.value, 60) => r.sentiment = "bullish"
            /\ IsInt(r.value, 40) => r.sentiment = "bearish"
            /\ IsInt(r.value, 50) => r.sentiment = "neutral"
            /\ IsInt(r.value, 100) => r.score = ScoreDen
            /\ IsInt(r.value, 0) => r.score = 0 - ScoreDen

\* the workflow's step has converted the value 60
C3_Witness ==
    \E r \in PrimaryResults :
        r.copy = "wf" /\ IsInt(r.value, 60) /\ r.sentiment = "bullish"

(***************************************************************************)
(* C4                                                                      *)
(***************************************************************************)
C4_Label(value) ==
    IF IsIntIn(value, 75, 100) THEN "Extreme Greed"
    ELSE IF IsIntIn(value, 55, 74) THEN "Greed"
    ELSE IF IsIntIn(value, 45, 54) THEN "Neutral"
    ELSE IF IsIntIn(value, 25, 44) THEN "Fear"
    ELSE "Extreme Fear"

\* C4: for every integer value in 0..100 that reaches
\* getFearGreedClassification (either copy; the provider sent no label of
\* its own), the label is Extreme Greed from 75, Greed from 55, Neutral
\* from 45, Fear from 25 and Extreme Fear below; 55..59 are Greed and
\* 41..44 are Fear while convertToSentiment calls them neutral.
C4_Classification ==
    \A r \in PrimaryResults :
        (IsIntIn(r.value, 0, 100) /\ world.fng.value_classification = "") =>
            /\ r.classification = C4_Label(r.value)
            /\ IsIntIn(r.value, 55, 59) =>
                    r.classification = "Greed" /\ r.sentiment = "neutral"
            /\ IsIntIn(r.value, 41, 44) =>
                    r.classification = "Fear" /\ r.sentiment = "neutral"

\* the tool has labelled the value 57
C4_Witness ==
    \E r \in PrimaryResults :
        /\ r.copy = "tool"
        /\ IsInt(r.value, 57)
        /\ world.fng.value_classification = ""
        /\ r.classification = "Greed"
        /\ r.sentiment = "neutral"

(***************************************************************************)
(* C5                                                                      *)
(***************************************************************************)
\* C5: two successive calls of the same copy of generateFallbackSentiment
\* for the same symbol at instants of the same hour bucket return the same
\* fear-greed value, whatever the zone of the process.
C5_SameHourSameValue ==
    [][(/\ fbSeen # << >>
        /\ fbSeen' # << >>
        /\ fbSeen'[1].copy = fbSeen[1].copy
        /\ fbSeen'[1].symbol = fbSeen[1].symbol
        /\ fbSeen'[1].at \div 60 = fbSeen[1].at \div 60)
       => fbSeen'[1].value = fbSeen[1].value]_vars

(***************************************************************************)
(* C6                                                                      *)
(***************************************************************************)
\* one of the three triggers of the fallback holds: no credential, a call
\* that fails, or a body that fails validation
C6_Trigger ==
    \/ ~env.COINMARKETCAP_API_KEY
    \/ world.fng.kind # "http"
    \/ ~ok(world.fng.status)
    \/ world.fng.shape # "status"
    \/ world.fng.error_code # "0"
    \/ world.fng.data # "list"
    \/ ~world.fng.valueIsNumber
    \/ world.fng.value < N(0)
    \/ world.fng.value > N(100)

\* C6: under each trigger of the fallback the sentiment fetcher (workflow
\* step and tool) returns the pseudo-index of the symbol and the current
\* time as its fear-greed value, with the sentiment and score converted
\* from it; without the credential the provider is not contacted.
C6_FallbackOnEveryTrigger ==
    /\ (sentiment # << >> /\ C6_Trigger) =>
           LET r == sentiment[1]
               pseudo == wf_generateFallbackSentiment(r.crypto_symbol, now, zone)
           IN  /\ r.fearGreedValue = pseudo.fear_greed_value
               /\ r.sentiment = pseudo.sentiment
               /\ r.score = pseudo.score
    /\ \A r \in ToolResults("get-sentiment-score") :
           (C6_Trigger /\ "fear_greed_value" \in DOMAIN r) =>
               LET pseudo == tool_generateFallbackSentiment(r.symbol, now, zone)
               IN  /\ r.fear_greed_value = pseudo.fear_greed_value
                   /\ r.sentiment = pseudo.sentiment
                   /\ r.score = pseudo.score
    /\ ~env.COINMARKETCAP_API_KEY =>
           \A i \in 1..Len(outbox) : outbox[i].to # "fng"

(***************************************************************************)
(* C7                                                                      *)
(***************************************************************************)
\* h: the sum of the character codes plus the hour bucket mod 100, mod 100
C7_Hash(symbol, t) == (symbolHash(symbol) + ((t \div 60) % 100)) % 100

C7_Clamp(x) == IF x < 0 THEN 0 ELSE IF x > 100 THEN 100 ELSE x

C7_TradingHour(t) == getHours(t, zone) \in 9..16

C7_Weekday(t) == getDay(t, zone) \in 1..5

C8_NoRatesRequest == \A i \in 1..Len(outbox) : outbox[i].to # "rates"

C8_ConfigurationError == "COINCAP_API_KEY environment variable is required"

\* the identifier and the symbol pass the validation of both call sites
C8_WellFormed ==
    /\ wf_priceThrowBeforeFetch(input, AllSet) = Undefined
    /\ getPrice_throwBeforeFetch(trim(toLowerCase(input.crypto_id)), AllSet)
           = Undefined

C9_Failure ==
    \/ ~env.NEWS_API_KEY
    \/ world.news.kind = "network_error"
    \/ (world.news.kind = "http" /\ ~ok(world.news.status))
    \/ (world.news.kind = "http" /\ world.news.shape = "invalid_json")

\* C9: in each of these cases the workflow's news step returns a record
\* with no article and no error field, and the run goes on to the compiler:
\* the step never fails the run.
C9_NewsNeverFails ==
    /\ (C9_Failure /\ pc \in {"compile", "done", "failed"}) =>
           /\ news # << >>
           /\ news[1].articles = << >>
           /\ DOMAIN news[1] = {"priceData", "sentimentData", "articles"}
    /\ pc = "failed" => (news # << >> /\ world.llm # "answers")

\* the step has returned without the credential, and after a status 500
C9_Witness ==
    /\ pc = "compile"
    /\ news # << >>
    /\ news[1].articles = << >>
    /\ \/ ~env.NEWS_API_KEY
       \/ (/\ world.news.kind = "http"
           /\ world.news.status = 500
           /\ \E i \in 1..Len(outbox) : outbox[i].to = "news")

(***************************************************************************)
(* C10                                                                     *)
(***************************************************************************)
\* C10: when the requested limit is an integer in 1..20, the news fetcher
\* (workflow step and tool) returns at most that many articles, however
\* many the provider sends.
C10_AtMostLimit ==
    IsIntIn(input.news_limit, 1, 20) =>
        /\ news # << >> => N(Len(news[1].articles)) <= input.news_limit
        /\ \A r \in ToolResults("get-crypto-news") :
               N(Len(r.articles)) <= input.news_limit

(***************************************************************************)
(* C11                                                                     *)
(***************************************************************************)
\* the live articles in the state: those of the workflow's news stage and
\* those of a get-crypto-news result whose source is "NewsAPI"
LiveArticles ==
    (IF news # << >>
     THEN { news[1].articles[i] : i \in 1..Len(news[1].articles) }
     ELSE {})
    \cup UNION { { r.articles[i] : i \in 1..Len(r.articles) } :
                   r \in { x \in ToolResults("get-crypto-news") :
                              x.source = "NewsAPI" } }

\* C11: every news record made from a provider article, by the tool or by
\* the workflow's news stage, is sanitized: the title has 1..200 characters
\* and the description 1..500 (a missing one is a placeholder), the url is
\* an absolute http/https URL or "#", and publishedAt is a date after the
\* year 2000 (the provider's, or else the current timestamp).
C11_NewsSanitized ==
    \A a \in LiveArticles :
        /\ a.title.len \in 1..200
        /\ a.description.len \in 1..500
        /\ a.url.raw = "#" \/ (a.url.parses /\ a.url.protocol \in {"http:", "https:"})
        /\ a.publishedAt.valid /\ a.publishedAt.year > 2000
        /\ a.publishedAt.raw = "<toISOString>" => a.publishedAt.at = now

(***************************************************************************)
(* C12                                                                     *)
(***************************************************************************)
\* the query and the limit get-crypto-news works with
C12_Query == OrStr(trim(input.crypto_id), Str_cryptocurrency)

C12_Limit == Max(N(1), Min(N(20), OrNum(input.news_limit, N(5))))

\* the query is refused by the tool's own test of dangerous patterns
C12_Rejected == MatchesDangerousPattern(C12_Query)

\* the credential is present, the live call was made and succeeded, and at
\* least one article survived the filter
C12_Live ==
    /\ env.NEWSAPI_KEY
    /\ \E i \in 1..Len(outbox) : outbox[i].to = "news"
    /\ world.news.kind = "http"
    /\ ok(world.news.status)
    /\ world.news.shape = "object"
    /\ world.news.apiStatus # "error"
    /\ world.news.isArray
    /\ \E i \in 1..Len(world.news.articles) : world.news.articles[i].isObject

\* r is the templated result: min(limit, 6) of the six templated articles
\* and the error field
C12_Templated(r) ==
    /\ r.source = "fallback"
    /\ r.error = "Primary news source unavailable, using fallback content"
    /\ Len(r.articles) = Min(C12_Limit \div Scale, 6)
    /\ \A i \in 1..Len(r.articles) :
           r.articles[i].source
               \in {"CoinDesk", "Cointelegraph", "Decrypt", "The Block"}

C13_Unreachable(resp) == resp.kind \in {"network_error", "no_response"}

\* a valid request, all credentials, a collaborator that answers, and at
\* least one provider unreachable
C13_Outage ==
    /\ input = DefaultInput
    /\ env = AllSet
    /\ world.llm = "answers"
    /\ \/ C13_Unreachable(world.rates)
       \/ C13_Unreachable(world.fng)
       \/ C13_Unreachable(world.news)

\* a step of the run awaits a fetch that never settles
WaitsForever ==
    \/ pc = "price_wait" /\ ~Settles(outbox[Len(outbox)], world.rates)
    \/ pc = "sentiment_wait" /\ ~Settles(outbox[Len(outbox)], world.fng)
    \/ pc = "news_wait" /\ ~Settles(outbox[Len(outbox)], world.news)

\* the final report shows each outage: price "0" with the price error, the
\* sentiment error, and an empty news list
C13_Report ==
    /\ C13_Unreachable(world.rates) =>
           /\ report[1].crypto_info.price_usd = Str_0
           /\ "price_error" \in DOMAIN report[1]
           /\ report[1].price_error # Undefined
    /\ C13_Unreachable(world.fng) =>
           /\ "sentiment_error" \in DOMAIN report[1]
           /\ report[1].sentiment_error # Undefined
    /\ C13_Unreachable(world.news) => report[1].latest_news = << >>

\* C13: a run with a valid request and unreachable providers, the language
\* model answering, does not abort and is never left waiting, and its final
\* report shows price "0" with the price error, the sentiment with the
\* sentiment error and an empty news list (a run of finitely many steps
\* reaches its report if and only if it neither aborts nor waits forever).
C13_OutageStillReports ==
    C13_Outage =>
        /\ pc # "failed"
        /\ ~WaitsForever
        /\ pc = "done" => C13_Report

(***************************************************************************)
(* C14                                                                     *)
(***************************************************************************)
\* the identifier is empty or whitespace-only, purely numeric, or contains
\* one of < > { } [ ] \ /
C14_Malformed(id) ==
    \/ trim(id) = << >>
    \/ \A i \in 1..Len(trim(id)) : IsDigit(trim(id)[i])
    \/ \E i \in 1..Len(id) : id[i] \in {"<", ">", "{", "}", "[", "]", "\\", "/"}

C14_ValidationErrors ==
    { "Invalid cryptocurrency ID provided",
      "Invalid cryptocurrency symbol provided",
      "Invalid cryptocurrency ID format" }

\* a run of the workflow is under way or has just ended
InRun == pc \notin {"idle", "tool"}

\* C14: in a pipeline run whose identifier is malformed no request is sent
\* to the price, sentiment or news provider, and the error reported by the
\* price stage is a validation error.
C14_MalformedIdNoRequest ==
    InRun /\ C14_Malformed(input.crypto_id) =>
        /\ outbox = << >>
        /\ price # << >> => price[1].error \in C14_ValidationErrors

(***************************************************************************)
(* C15                                                                     *)
(***************************************************************************)
\* /^[a-z0-9-]+$/ of the identifier
C15_ValidId(id) ==
    /\ id # << >>
    /\ \A i \in 1..Len(id) : InSeq(Lower, id[i]) \/ IsDigit(id[i]) \/ id[i] = "-"

\* C15: a query whose identifier is not made of [a-z0-9-] only, whose symbol
\* does not match [A-Z0-9]{2,10}, or whose news limit is not an integer in
\* 1..20 is rejected before any network call: the run sends no request.
C15_InvalidQueryNoRequest ==
    /\ InRun
    /\ \/ ~C15_ValidId(input.crypto_id)
       \/ ~IsValidSymbolPattern(input.crypto_symbol)
       \/ ~IsIntIn(input.news_limit, 1, 20)
    => outbox = << >>

(***************************************************************************)
(* C16                                                                     *)
(***************************************************************************)
\* C16: every request sent to a provider, by a workflow stage or by a tool,
\* carries a timeout, so that no stage is left awaiting a provider that
\* never answers; the expiry is handled like a provider error: the price
\* fetchers return their error record, the sentiment fetchers their
\* fallback, the news tool its templated result.
C16_EveryCallTimesOut ==
    /\ \A i \in 1..Len(outbox) : outbox[i].timeout # NoTimeout
    /\ ~WaitsForever
    /\ world.rates.kind = "no_response" =>
           \A r \in PriceRecords : r.error # Undefined
    /\ world.fng.kind = "no_response" =>
           /\ sentiment # << >> => sentiment[1].sentiment_error # Undefined
           /\ \A r \in ToolResults("get-sentiment-score") : r.error # Undefined
    /\ world.news.kind = "no_response" =>
           \A r \in ToolResults("get-crypto-news") : r.source = "fallback"

(***************************************************************************)
(* C17                                                                     *)
(***************************************************************************)
\* how many requests of the run went to the provider
RequestsTo(provider) ==
    Cardinality({ i \in 1..Len(outbox) : outbox[i].to = provider })

\* the request was sent and failed: no connection, no answer in time, or a
\* status that is not a success
C17_Failed(provider, resp) ==
    /\ RequestsTo(provider) > 0
    /\ resp.kind # "http" \/ ~ok(resp.status)

\* C17: in a run each stage sends at most one request to its provider; after
\* a failed request the price stage returns its error record, the sentiment
\* stage its fallback and the news stage an empty list, without a second
\* request.
C17_AtMostOneRequest ==
    /\ \A provider \in {"rates", "fng", "news"} : RequestsTo(provider) <= 1
    /\ price # << >> /\ C17_Failed("rates", world.rates) =>
           price[1].error # Undefined /\ price[1].priceUsd = Str_0
    /\ sentiment # << >> /\ C17_Failed("fng", world.fng) =>
           sentiment[1].sentiment_error # Undefined
    /\ news # << >> /\ C17_Failed("news", world.news) =>
           news[1].articles = << >>

\* a finished run in which all three requests were sent and failed
C17_Witness ==
    /\ pc = "done"
    /\ Len(outbox) = 3
    /\ C17_Failed("rates", world.rates)
    /\ C17_Failed("fng", world.fng)
    /\ C17_Failed("news", world.news)
    /\ price[1].error # Undefined

(***************************************************************************)
(* C18                                                                     *)
(***************************************************************************)
\* the stage the run is in: 1 Price, 2 Sentiment, 3 News, 4 Compile, 5 over,
\* 0 no run
Stage(at) ==
    CASE at \in {"price", "price_wait"} -> 1
      [] at \in {"sentiment", "sentiment_wait"} -> 2
      [] at \in {"news", "news_wait"} -> 3
      [] at = "compile" -> 4
      [] at \in {"done", "failed"} -> 5
      [] OTHER -> 0

\* the fields a stage hands on are those it was given
C18_SameFields(given, handed, fields) == \A f \in fields : handed[f] = given[f]

\* one step of the pipeline keeps the sequence
C18_Step ==
    /\ Stage(pc') \in {Stage(pc), (Stage(pc) + 1) % 6}
    /\ Stage(pc) = 4 /\ pc' = "failed" => report' = << >>
    /\ price' # price /\ price' # << >> =>
           Stage(pc) = 1 /\ Stage(pc') = 2 /\ price = << >>
    /\ sentiment' # sentiment /\ sentiment' # << >> =>
           /\ Stage(pc) = 2 /\ Stage(pc') = 3 /\ sentiment = << >>
           /\ price # << >>
           /\ C18_SameFields(price[1], sentiment'[1], DOMAIN price[1])
    /\ news' # news /\ news' # << >> =>
           /\ Stage(pc) = 3 /\ Stage(pc') = 4 /\ news = << >>
           /\ sentiment # << >>
           /\ C18_SameFields(sentiment[1], news'[1].priceData,
                             DOMAIN news'[1].priceData)
           /\ C18_SameFields(sentiment[1], news'[1].sentimentData,
                             DOMAIN news'[1].sentimentData)
    /\ report' # report /\ report' # << >> =>
           /\ Stage(pc) = 4 /\ pc' = "done" /\ report = << >>
           /\ news # << >>
           /\ report'[1].crypto_info.name = news[1].priceData.name
           /\ report'[1].crypto_info.price_usd = news[1].priceData.priceUsd
           /\ report'[1].sentiment_analysis.sentiment
                  = news[1].sentimentData.sentiment
           /\ Len(report'[1].latest_news) = Len(news[1].articles)

\* C18: the pipeline is the strict sequence Price, Sentiment, News, Compile:
\* every step stays in its stage or moves to the next one, each stage writes
\* its record once, only after the stage before it has written its own, and
\* hands on the fields of the record it was given.
C18_StrictSequence == [][C18_Step]_vars

\* a run that went through all four stages
C18_Witness ==
    /\ pc = "done"
    /\ price # << >>
    /\ sentiment # << >>
    /\ news # << >>
    /\ report # << >>

(***************************************************************************)
(* C19                                                                     *)
(***************************************************************************)
\* the record carries the field with that value
C19_Carries(record, field, value) ==
    field \in DOMAIN record /\ record[field] = value

\* the errors of the first two stages are in the record
C19_KeepsErrors(record) ==
    /\ price[1].error # Undefined =>
           C19_Carries(record, "price_error", price[1].error)
    /\ sentiment[1].sentiment_error # Undefined =>
           C19_Carries(record, "sentiment_error", sentiment[1].sentiment_error)

C20_Path ==
    IF ~env.COINMARKETCAP_API_KEY THEN "no key"
    ELSE IF wf_sentimentThrowAfterFetch(world.fng) = Undefined THEN "primary"
    ELSE "fallback"

\* C20: whether or not the price record has its error set, the sentiment
\* stage takes the return path that the credential and the provider's
\* answer decide (static record without request, primary result, fallback),
\* and on each path its output has price_error equal to the price record's
\* error and name, symbol, priceUsd and changePercent24Hr as received.
C20_SentimentAfterPriceError ==
    /\ Stage(pc) = 2 /\ pc # "sentiment" =>
           env.COINMARKETCAP_API_KEY /\ RequestsTo("fng") = 1
    /\ sentiment # << >> =>
           /\ sentiment[1].price_error = price[1].error
           /\ C18_SameFields(price[1], sentiment[1],
                  {"name", "symbol", "priceUsd", "changePercent24Hr"})
           /\ RequestsTo("fng") = IF C20_Path = "no key" THEN 0 ELSE 1
           /\ C20_Path = "primary" <=> sentiment[1].sentiment_error = Undefined
           /\ C20_Path = "no key" <=>
                  sentiment[1].classification = "Neutral (API Unavailable)"
           /\ C20_Path = "fallback" <=>
                  sentiment[1].classification = "Neutral (Fallback)"

\* the price stage set its error and the sentiment stage returned the
\* provider's value by its primary path
C20_Witness ==
    /\ sentiment # << >>
    /\ price[1].error # Undefined
    /\ sentiment[1].price_error = price[1].error
    /\ C20_Path = "primary"
    /\ sentiment[1].sentiment_error = Undefined

(***************************************************************************)
(* C21                                                                     *)
(***************************************************************************)
\* one step of a run: the run is aborted by the compiler alone, on a missing
\* input record or a failing language model; each of the three stages
\* before it ends with its record, with data or degraded
C21_Step ==
    /\ pc' = "failed" =>
           /\ pc = "compile"
           /\ news = << >> \/ world.llm # "answers"
    /\ pc = "compile" /\ news = << >> => pc' = "failed"
    /\ Stage(pc) = 1 /\ Stage(pc') = 2 =>
           /\ price' # << >>
           /\ price'[1].error # Undefined => price'[1].priceUsd = Str_0
    /\ Stage(pc) = 2 /\ Stage(pc') = 3 =>
           /\ sentiment' # << >>
           /\ sentiment'[1].sentiment \in {"bullish", "bearish", "neutral"}
    /\ Stage(pc) = 3 /\ Stage(pc') = 4 => news' # << >>

\* C21: only the compiler aborts a run: the price, sentiment and news stages
\* never throw and end with a record (data or degraded data), while the
\* compiler throws, failing the run, when its input record is missing.
C21_OnlyCompilerAborts == [][C21_Step]_vars

\* the three stages ended degraded and the compiler aborted the run
C21_Witness ==
    /\ pc = "failed"
    /\ price # << >> /\ price[1].error # Undefined
    /\ sentiment # << >> /\ sentiment[1].sentiment_error # Undefined
    /\ news # << >> /\ news[1].articles = << >>

(***************************************************************************)
(* C22                                                                     *)
(***************************************************************************)
\* what a run for the request returns when it runs alone: the four steps
\* applied one after the other
AlonePrice(in) ==
    IF wf_priceThrowBeforeFetch(in, env) # Undefined
    THEN wf_priceErrorRecord(in, wf_priceThrowBeforeFetch(in, env))
    ELSE IF wf_priceThrowAfterFetch(world.rates) # Undefined
    THEN wf_priceErrorRecord(in, wf_priceThrowAfterFetch(world.rates))
    ELSE wf_priceRecord(in, world.rates)

AloneSentiment(priceRec) ==
    IF priceRec.crypto_symbol = << >>
    THEN wf_sentimentFallbackRecord(priceRec,
             "Invalid cryptocurrency symbol for sentiment analysis", now, zone)
    ELSE IF ~env.COINMARKETCAP_API_KEY THEN wf_sentimentNoKeyRecord(priceRec)
    ELSE IF wf_sentimentThrowAfterFetch(world.fng) # Undefined
    THEN wf_sentimentFallbackRecord(priceRec,
             wf_sentimentThrowAfterFetch(world.fng), now, zone)
    ELSE wf_sentimentRecord(priceRec, world.fng)

AloneNews(sentimentRec) ==
    wf_newsRecord(sentimentRec,
                  IF env.NEWS_API_KEY THEN wf_newsArticles(world.news)
                  ELSE << >>)

AloneReport(in) ==
    compileAnalysis_record(AloneNews(AloneSentiment(AlonePrice(in))), now)

\* one step of two interleaved runs: a report, of the run executed or of the
\* suspended one, is the report of that run's request alone; credentials
\* and provider answers are only read
C22_Step ==
    /\ report' # << >> => report'[1] = AloneReport(input')
    /\ other'.report # << >> => other'.report[1] = AloneReport(other'.input)
    /\ env' = env
    /\ world' = world

\* C22: two runs interleaved at every step are independent: each run's final
\* report is the one its request gives alone under the same provider
\* answers, and no step writes the credentials or anything the other run
\* reads.
C22_RunsIndependent == [][C22_Step]_vars

\* both runs have their reports, for different requests, after having been
\* suspended in turn
C22_Witness ==
    /\ pc = "done"
    /\ other.pc = "done"
    /\ report # << >> /\ other.report # << >>
    /\ input # other.input
    /\ report[1].crypto_info.name # other.report[1].crypto_info.name

C24_PrimaryOnlyForIntegers ==
    PrimaryResults # {} =>
        /\ world.fng.kind = "http"
        /\ world.fng.error_code = "0"
        /\ world.fng.data = "list"
        /\ world.fng.valueIsNumber
        /\ IsIntIn(world.fng.value, 0, 100)

(***************************************************************************)
(* C25                                                                     *)
(***************************************************************************)
\* C25: the tool's copy of the sentiment logic behaves as the workflow's:
\* a primary result of the tool, for an integer value in 0..100, has the
\* sentiment, score and label the workflow's convertToSentiment and
\* getFearGreedClassification give, and a fallback result of the tool has
\* the sentiment, score and value the workflow's generateFallbackSentiment
\* gives for the same symbol at the same instant.
C25_CopiesAgree ==
    \A r \in ToolResults("get-sentiment-score") :
        /\ r.error = Undefined /\ IsIntIn(world.fng.value, 0, 100) =>
               /\ r.sentiment = wf_convertToSentiment(world.fng.value).sentiment
               /\ r.score = wf_convertToSentiment(world.fng.value).score
               /\ world.fng.value_classification = "" =>
                      r.analysis.classification
                          = wf_getFearGreedClassification(world.fng.value)
        /\ r.error = "Primary sentiment API unavailable, using fallback calculation" =>
               /\ r.sentiment
                      = wf_generateFallbackSentiment(r.symbol, now, zone).sentiment
               /\ r.score
                      = wf_generateFallbackSentiment(r.symbol, now, zone).score
               /\ r.fear_greed_value
                      = wf_generateFallbackSentiment(r.symbol, now, zone).fear_greed_value

(***************************************************************************)
(* C26                                                                     *)
(***************************************************************************)
\* C26: a result of the fallback path (workflow step and tool) carries as
\* classification the five-bucket label of its own fear-greed value.
C26_FallbackClassified ==
    /\ sentiment # << >> /\ sentiment[1].sentiment_error # Undefined =>
           sentiment[1].classification = C4_Label(sentiment[1].fearGreedValue)
    /\ \A r \in ToolResults("get-sentiment-score") :
           r.error = "Primary sentiment API unavailable, using fallback calculation" =>
               r.analysis.classification = C4_Label(r.fear_greed_value)

(***************************************************************************)
(* C27                                                                     *)
(***************************************************************************)
\* C27: the page size the workflow's news stage sends to the provider is an
\* integer in 1..20, whatever the request and whether the price stage
\* succeeded or returned its error record.
C27_PageSizeInRange ==
    InRun =>
        \A i \in 1..Len(outbox) :
            outbox[i].to = "news" => IsIntIn(outbox[i].pageSize, 1, 20)

(***************************************************************************)
(* C28                                                                     *)
(***************************************************************************)
\* the get-crypto-news tool sent a request to the news provider
C28_ToolCalledProvider ==
    /\ ToolResults("get-crypto-news") # {}
    /\ RequestsTo("news") > 0

\* the workflow's news stage sent a request to the news provider
C28_WorkflowCalledProvider == InRun /\ RequestsTo("news") > 0

\* C28: there is one news credential: in every configuration in which the
\* get-crypto-news tool calls the live news provider, the workflow's news
\* stage finds the credential too, and the other way round.
C28_OneNewsCredential ==
    /\ C28_ToolCalledProvider => env.NEWS_API_KEY
    /\ C28_WorkflowCalledProvider => env.NEWSAPI_KEY

(***************************************************************************)
(* C29                                                                     *)
(***************************************************************************)
\* the news provider was asked and answered with no article the tool keeps
C29_ZeroArticles ==
    /\ env.NEWSAPI_KEY
    /\ RequestsTo("news") > 0
    /\ world.news.kind = "http"
    /\ ok(world.news.status)
    /\ world.news.shape = "object"
    /\ world.news.apiStatus # "error"
    /\ world.news.isArray
    /\ SelectSeq(world.news.articles, LAMBDA a : a.isObject) = << >>

\* C29: whatever the query, the limit and the provider's outcome, the
\* result of get-crypto-news holds at least one article, and a result whose
\* source is not "NewsAPI" carries a non-empty error string.
C29_NeverEmpty ==
    \A r \in ToolResults("get-crypto-news") :
        /\ Len(r.articles) >= 1
        /\ r.source # "NewsAPI" => r.error \notin {Undefined, ""}

\* the provider answered with zero articles and the tool returned templated
\* articles with its error message
C29_Witness ==
    /\ C29_ZeroArticles
    /\ \E r \in ToolResults("get-crypto-news") :
           r.source = "fallback" /\ Len(r.articles) >= 1

(***************************************************************************)
(* C30                                                                     *)
(***************************************************************************)
\* the value the call recorded in s computed before its clamp
C30_PreClamp(s) ==
    IF s.copy = "wf"
    THEN wf_adjustedValue(s.symbol, s.at, zone)
    ELSE tool_adjustedValue(s.symbol, s.at, zone)

\* the score the call recorded in s returned
C30_Score(s) ==
    IF s.copy = "wf"
    THEN wf_convertToSentiment(s.value).score
    ELSE tool_convertToSentiment(s.value).score

\* the call recorded in s applied the trading-hours adjustment
C30_Adjusted(s) ==
    C7_TradingHour(s.at) /\ (s.copy = "wf" \/ C7_Weekday(s.at))

\* the score is within [-0.4, 0.6]
C30_ScoreInBand(score) ==
    /\ score >= 0 - (2 * ScoreDen) \div 5
    /\ score <= (3 * ScoreDen) \div 5

\* what holds of every call whatever the hour
C30_ClampIdle(s) ==
    /\ C30_PreClamp(s) \in 0..99
    /\ C30_Adjusted(s) => C30_PreClamp(s) \in 30..80
    /\ s.value = N(C30_PreClamp(s))
    /\ s.value # N(100)

====
